---- MODULE Spec2Model ----
(***************************************************************************)
(* LootQuest points ledger: the sql.js database wrapper, the signup bonus, *)
(* the Lootably postback (credit, referral unlock, referral commission)    *)
(* and the withdrawal gate of server.js (src/unnamed/part_003).            *)
(*                                                                         *)
(* The server is one Node process (ecosystem.config.js: instances 1, fork  *)
(* mode) and the postback and withdrawal handlers contain no await: each   *)
(* handler runs to completion before the next request is looked at, so a   *)
(* handler is one action.  What can cut a handler short is an exception    *)
(* thrown by a statement (the catch block answers 500 and the statements   *)
(* already run stay, Database.run saves after each one) or the process     *)
(* stopping between two statements.  A handler is therefore modelled as    *)
(* the list of SQL statements it issues, run in order up to the first one  *)
(* that throws (or up to the crash point).                                 *)
(***************************************************************************)
EXTENDS Integers, Sequences, FiniteSets, Bags, TLC

VARIABLES
    users,          \* table users: id -> row (the rows that exist)
    transactions,   \* table transactions: rows in insertion order
    withdrawals,    \* table withdrawals: rows in insertion order
    file,           \* data/pixelrewards.db: the tables as last saved
    now,            \* Date.now() of the server, in milliseconds
    tz,             \* offset of the server's local time from UTC, in ms
    whitelist,      \* LOOTABLY_IP_WHITELIST of the environment
    inflight,       \* requests received whose handler has not run yet (a bag)
    resp            \* the requests handled, in order, each with its answer
                    \* and effect (kept where requests are in flight)

vars == <<users, transactions, withdrawals, file, now, tz, whitelist, inflight, resp>>

-----------------------------------------------------------------------------
(* Bounds of the model *)

MaxTicks == 2       \* clock steps per behaviour
MaxWithdrawals == 2 \* withdrawal records per behaviour
MaxInflight == 2    \* requests waiting for the event loop
MaxRequests == 3    \* requests received per behaviour, where requests are in flight
MaxRestarts == 2    \* times the process is stopped and started again
MaxEntries == 101   \* ledger entries of the user with the long history

-----------------------------------------------------------------------------
(* Configuration (server.js, CONFIGURATION) *)

SEVEN_DAYS_MS == 7 * 24 * 60 * 60 * 1000
DAY_MS == 24 * 60 * 60 * 1000
HOUR_MS == 60 * 60 * 1000
SIGNUP_BONUS == 50
POINTS_PER_DOLLAR == 1000
USER_SPLIT_PCT == 60
REFERRAL_BONUS == 50
REFERRAL_THRESHOLD == 500
REFERRAL_COMMISSION_PCT == 5

\* SQL NULL and a present value of a nullable column
NULL == <<>>
Some(x) == <<x>>
IsNull(v) == v = <<>>
Val(v) == v[1]

UserIds == {"u1", "u2", "u3"}
IPs == {"ip1", "ip2"}

\* rewards.json as loaded by loadRewards: the file is deployment data; these
\* three rows give a cheap reward, a dear one and one that is out of stock.
rewardsCatalog ==
    { [id |-> "r40",  name |-> "small", price |-> 40,  stock |-> 5],
      [id |-> "r500", name |-> "big",   price |-> 500, stock |-> 5],
      [id |-> "rOut", name |-> "gone",  price |-> 500, stock |-> 0] }

RewardIds == {"r40", "r500", "rOut", "nope"}

getRewardById(rewardId) ==
    IF \E r \in rewardsCatalog : r.id = rewardId
    THEN Some(CHOOSE r \in rewardsCatalog : r.id = rewardId)
    ELSE NULL

-----------------------------------------------------------------------------
(* Time: SQLite datetime('now') and JavaScript new Date(text).getTime() *)

\* datetime('now') yields 'YYYY-MM-DD HH:MM:SS' in UTC: the instant cut to
\* whole seconds.  The text is represented by the instant it denotes in UTC.
SqlDatetimeNow(t) == (t \div 1000) * 1000

\* new Date('YYYY-MM-DD HH:MM:SS').getTime(): a date-time text without zone
\* is read as local time, so the result is off by the server's UTC offset.
JsDateParse(text, offset) == text - offset

-----------------------------------------------------------------------------
(* Ledger entry ids.  An id is text; it is represented by the triple       *)
(* <<prefix, owner, millisecond>> that the text is built from, a partner   *)
(* transaction id by <<"partner", name, 0>>.                               *)

PartnerTx(name) == <<"partner", name, 0>>
PartnerTxIds == {PartnerTx("tx1"), PartnerTx("tx2")}
BonusTxId(uid, t) == <<"bonus", uid, t>>
RefBonusTxId(uid, t) == <<"ref_bonus", uid, t>>
RefCommTxId(uid, t) == <<"ref_comm", uid, t>>
WithdrawTxId(uid, t) == <<"withdraw", uid, t>>

-----------------------------------------------------------------------------
(* The database: sql.js in memory, exported to the file after every run *)

DB == [users |-> users, transactions |-> transactions, withdrawals |-> withdrawals]

EmptyDB == [users |-> [u \in {} |-> 0], transactions |-> <<>>, withdrawals |-> <<>>]

HasUser(db, uid) == uid \in DOMAIN db.users

HasTx(db, id) == \E i \in 1..Len(db.transactions) : db.transactions[i].id = id

\* CHECK(balance >= 0) of table users
BalanceCheck(b) == b >= 0

\* One SQL statement against db: [ok, db].  ok = FALSE is a thrown
\* constraint error; the statement then changes nothing.
ExecInsertUser(db, s) ==
    IF HasUser(db, s.row.id) \/ ~BalanceCheck(s.row.balance)
    THEN [ok |-> FALSE, db |-> db]
    ELSE [ok |-> TRUE,
          db |-> [db EXCEPT !.users =
                    [u \in DOMAIN db.users \cup {s.row.id} |->
                        IF u = s.row.id THEN s.row ELSE db.users[u]]]]

\* INSERT OR REPLACE: an entry with the same id gives way to the new one
ExecInsertOrReplaceTx(db, s) ==
    IF ~HasUser(db, s.row.user_id)
    THEN [ok |-> FALSE, db |-> db]
    ELSE [ok |-> TRUE,
          db |-> [db EXCEPT !.transactions =
                    Append(SelectSeq(@, LAMBDA r : r.id # s.row.id), s.row)]]

\* PRIMARY KEY (id), FOREIGN KEY (user_id); no user is ever deleted and every
\* handler inserts for a user it has just read, so the foreign key never
\* decides an outcome here
ExecInsertTx(db, s) ==
    IF HasTx(db, s.row.id) \/ ~HasUser(db, s.row.user_id)
    THEN [ok |-> FALSE, db |-> db]
    ELSE [ok |-> TRUE, db |-> [db EXCEPT !.transactions = Append(@, s.row)]]

ExecInsertWithdrawal(db, s) ==
    IF ~HasUser(db, s.row.user_id)
    THEN [ok |-> FALSE, db |-> db]
    ELSE [ok |-> TRUE, db |-> [db EXCEPT !.withdrawals = Append(@, s.row)]]

\* UPDATE users SET ... WHERE id = ?: no row matched is no error
ExecUpdateUser(db, s, newRow) ==
    IF ~HasUser(db, s.uid) THEN [ok |-> TRUE, db |-> db]
    ELSE IF ~BalanceCheck(newRow.balance) THEN [ok |-> FALSE, db |-> db]
    ELSE [ok |-> TRUE, db |-> [db EXCEPT !.users[s.uid] = newRow]]

\* a debit that stamps first_withdrawal_at each time
DebitedRowRestamped(user, s) ==
    [user EXCEPT !.balance = @ - s.amount,
                 !.total_withdrawn = @ + s.amount,
                 !.first_withdrawal_at = Some(SqlDatetimeNow(s.at))]

\* a debit that also takes the points off the lifetime earnings
DebitedRowSpendsLifetime(user, s) ==
    [user EXCEPT !.balance = @ - s.amount,
                 !.total_withdrawn = @ + s.amount,
                 !.lifetime_earnings = @ - s.amount,
                 !.first_withdrawal_at =
                     IF IsNull(@) THEN Some(SqlDatetimeNow(s.at)) ELSE @]

\* the row the UPDATE of a withdrawal leaves (lines 1758-1764);
\* COALESCE(first_withdrawal_at, datetime('now')) keeps a value that is set
DebitedRow(user, s) ==
    [user EXCEPT !.balance = @ - s.amount,
                 !.total_withdrawn = @ + s.amount,
                 !.first_withdrawal_at =
                     IF IsNull(@) THEN Some(SqlDatetimeNow(s.at)) ELSE @]

Exec(db, s) ==
    CASE s.op = "insert_user" -> ExecInsertUser(db, s)
      [] s.op = "insert_tx" -> ExecInsertTx(db, s)
      [] s.op = "insert_withdrawal" -> ExecInsertWithdrawal(db, s)
      [] s.op = "credit" ->
            \* SET balance = balance + ?, total_earned = total_earned + ?
            \*     [, lifetime_earnings = lifetime_earnings + ?]
            ExecUpdateUser(db, s,
                IF HasUser(db, s.uid)
                THEN [db.users[s.uid] EXCEPT
                        !.balance = @ + s.amount,
                        !.total_earned = @ + s.amount,
                        !.lifetime_earnings = @ + s.lifetime]
                ELSE [balance |-> 0])
      [] s.op = "add_total_earned" ->
            ExecUpdateUser(db, s,
                IF HasUser(db, s.uid)
                THEN [db.users[s.uid] EXCEPT !.total_earned = @ + s.amount]
                ELSE [balance |-> 0])
      [] s.op = "set_referrer" ->
            ExecUpdateUser(db, s,
                IF HasUser(db, s.uid)
                THEN [db.users[s.uid] EXCEPT !.referred_by_user_id = Some(s.referrer)]
                ELSE [balance |-> 0])
      [] s.op = "set_unlocked" ->
            ExecUpdateUser(db, s,
                IF HasUser(db, s.uid)
                THEN [db.users[s.uid] EXCEPT !.referral_unlocked = 1]
                ELSE [balance |-> 0])
      [] s.op = "debit" ->
            \* SET balance = balance - ?, total_withdrawn = total_withdrawn + ?,
            \*     first_withdrawal_at = COALESCE(first_withdrawal_at, datetime('now'))
            ExecUpdateUser(db, s,
                IF HasUser(db, s.uid) THEN DebitedRow(db.users[s.uid], s)
                ELSE [balance |-> 0])

\* Database.run, statement after statement: the first k statements of
\* stmts, stopping at the first that throws.  [db, ok, ran]
RECURSIVE RunFrom(_, _, _, _)
RunFrom(db, stmts, i, k) ==
    IF i > Len(stmts) \/ i > k THEN [db |-> db, ok |-> TRUE, ran |-> i - 1]
    ELSE LET r == Exec(db, stmts[i])
         IN IF r.ok THEN RunFrom(r.db, stmts, i + 1, k)
            ELSE [db |-> db, ok |-> FALSE, ran |-> i - 1]

RunStmts(db, stmts, k) == RunFrom(db, stmts, 1, k)

RunAll(db, stmts) == RunStmts(db, stmts, Len(stmts))

-----------------------------------------------------------------------------
(* POST /api/auth/login: user sync, signup bonus, referral at signup *)

\* uuidv4(): a fresh id; ids are handed out in a fixed order
UserOrder == <<"u1", "u2", "u3">>

FreshIds(db) == {i \in 1..Len(UserOrder) : ~HasUser(db, UserOrder[i])}

CanCreate(db) == FreshIds(db) # {}

uuidv4(db) == UserOrder[CHOOSE i \in FreshIds(db) : \A j \in FreshIds(db) : i <= j]

\* generateReferralCode(userId): the code of a user is represented by its id
UserByReferralCode(db, code) ==
    IF HasUser(db, code) THEN Some(db.users[code]) ELSE NULL

\* a sign-up that links whatever the addresses are
SignupReferrerAnyIp(db, refCode, newUserIP) ==
    IF IsNull(refCode) THEN NULL
    ELSE LET referrer == UserByReferralCode(db, Val(refCode))
         IN IF IsNull(referrer) THEN NULL ELSE Some(Val(referrer).id)

\* the referrer a signup with code refCode gets (lines 774-792)
SignupReferrer(db, refCode, newUserIP) ==
    IF IsNull(refCode) THEN NULL
    ELSE LET referrer == UserByReferralCode(db, Val(refCode))
         IN IF IsNull(referrer) THEN NULL
            ELSE IF Val(referrer).ip_address = newUserIP THEN NULL
            ELSE Some(Val(referrer).id)

NewUserRow(userId, ip, referredBy, t) ==
    [id |-> userId,
     balance |-> SIGNUP_BONUS,
     total_earned |-> 0,
     total_withdrawn |-> 0,
     created_at |-> SqlDatetimeNow(t),
     first_withdrawal_at |-> NULL,
     referred_by_user_id |-> referredBy,
     ip_address |-> ip,
     lifetime_earnings |-> 0,
     referral_unlocked |-> 0]

TxRow(id, uid, amount, type, source) ==
    [id |-> id, user_id |-> uid, amount |-> amount, type |-> type, source |-> source]

\* a sign-up that leaves out the UPDATE of total_earned
SignupStmtsNoTotalEarned(db, ip, refCode, t) ==
    LET userId == uuidv4(db)
    IN << [op |-> "insert_user",
           row |-> NewUserRow(userId, ip, SignupReferrer(db, refCode, ip), t)],
          [op |-> "insert_tx",
           row |-> TxRow(BonusTxId(userId, t), userId, SIGNUP_BONUS, "credit", "signup_bonus")] >>

SignupStmts(db, ip, refCode, t) ==
    LET userId == uuidv4(db)
    IN << [op |-> "insert_user",
           row |-> NewUserRow(userId, ip, SignupReferrer(db, refCode, ip), t)],
          [op |-> "insert_tx",
           row |-> TxRow(BonusTxId(userId, t), userId, SIGNUP_BONUS, "credit", "signup_bonus")],
          [op |-> "add_total_earned", uid |-> userId, amount |-> SIGNUP_BONUS] >>

\* req = [email, ip, refCode]; an email is represented by the id of its user
AuthLogin(db, req, t) ==
    IF HasUser(db, req.email)
    THEN [db |-> db, code |-> "LoginExisting"]
    ELSE LET r == RunAll(db, SignupStmts(db, req.ip, req.refCode, t))
         IN [db |-> r.db, code |-> IF r.ok THEN "LoginNew" ELSE "ServerError"]

-----------------------------------------------------------------------------
(* GET /api/postback/lootably, the handler registered first (line 1543).   *)
(* Express runs the first handler registered for a route; it answers every *)
(* request and never calls next(), so the handler registered at line 1964  *)
(* is never run.                                                            *)

LOOTABLY_SECRET == "secret"

\* payout, a query text: absent/empty, not a number, or a decimal number,
\* held in hundredths
PayoutMissing == [empty |-> TRUE, num |-> FALSE, cents |-> 0]
PayoutGarbage == [empty |-> FALSE, num |-> FALSE, cents |-> 0]
PayoutNum(c) == [empty |-> FALSE, num |-> TRUE, cents |-> c]

\* Math.floor(parseFloat(payout)): [nan, value]
FloorParseFloat(payout) ==
    IF payout.num THEN [nan |-> FALSE, value |-> payout.cents \div 100]
    ELSE [nan |-> TRUE, value |-> 0]

\* line 1570 (with FloorParseFloat): points = Math.floor(parseFloat(payout))
PostbackPoints(payout) == FloorParseFloat(payout).value

\* line 2016, in the handler registered second (never run):
\* Math.floor(payoutUSD * POINTS_PER_DOLLAR * USER_SPLIT)
pointsToCredit(payout) ==
    (payout.cents * POINTS_PER_DOLLAR * USER_SPLIT_PCT) \div (100 * 100)

\* Math.floor(points * REFERRAL_COMMISSION_RATE)
Commission(points) == (points * REFERRAL_COMMISSION_PCT) \div 100

\* the validation block without the look-up of the transaction id
PostbackValidationNoIdLookup(db, req, wl) ==
    IF req.user_id = "" \/ req.payout.empty \/ IsNull(req.transaction_id) \/ req.secret = ""
        THEN "MissingParams"
    ELSE IF req.secret # LOOTABLY_SECRET THEN "InvalidSecret"
    ELSE IF wl # {} /\ req.ip \notin wl THEN "IpNotAuthorized"
    ELSE IF ~req.payout.num \/ req.payout.cents \div 100 <= 0 THEN "InvalidPayout"
    ELSE IF ~HasUser(db, req.user_id) THEN "UserNotFound"
    ELSE ""

\* the validation block without the look-up of the user
PostbackValidationNoUserLookup(db, req, wl) ==
    IF req.user_id = "" \/ req.payout.empty \/ IsNull(req.transaction_id) \/ req.secret = ""
        THEN "MissingParams"
    ELSE IF req.secret # LOOTABLY_SECRET THEN "InvalidSecret"
    ELSE IF wl # {} /\ req.ip \notin wl THEN "IpNotAuthorized"
    ELSE IF ~req.payout.num \/ req.payout.cents \div 100 <= 0 THEN "InvalidPayout"
    ELSE IF HasTx(db, Val(req.transaction_id)) THEN "AlreadyProcessed"
    ELSE ""

\* lines 1551-1588: the answer of the validation block, "" when it passes
PostbackValidation(db, req, wl) ==
    IF req.user_id = "" \/ req.payout.empty \/ IsNull(req.transaction_id) \/ req.secret = ""
        THEN "MissingParams"
    ELSE IF req.secret # LOOTABLY_SECRET THEN "InvalidSecret"
    ELSE IF wl # {} /\ req.ip \notin wl THEN "IpNotAuthorized"
    ELSE IF FloorParseFloat(req.payout).nan \/ PostbackPoints(req.payout) <= 0
        THEN "InvalidPayout"
    ELSE IF ~HasUser(db, req.user_id) THEN "UserNotFound"
    ELSE IF HasTx(db, Val(req.transaction_id)) THEN "AlreadyProcessed"
    ELSE ""

\* lines 1590-1610: the credit
CreditStmts(req) ==
    LET points == PostbackPoints(req.payout)
    IN << [op |-> "insert_tx",
           row |-> TxRow(Val(req.transaction_id), req.user_id, points, "credit", "lootably")],
          [op |-> "credit", uid |-> req.user_id, amount |-> points, lifetime |-> points] >>

\* an unlock that pays the bonus and leaves the flag as it was
UnlockStmtsNoFlag(updatedUser, uid, t) ==
    LET referrerId == Val(updatedUser.referred_by_user_id)
    IN IF updatedUser.lifetime_earnings >= REFERRAL_THRESHOLD
          /\ updatedUser.referral_unlocked = 0
       THEN << [op |-> "credit", uid |-> referrerId, amount |-> REFERRAL_BONUS, lifetime |-> 0],
               [op |-> "insert_tx",
                row |-> TxRow(RefBonusTxId(referrerId, t), referrerId, REFERRAL_BONUS,
                              "credit", "referral_bonus")] >>
       ELSE << >>

\* lines 1622-1639: one-time unlock, for the row updatedUser read back
UnlockStmts(updatedUser, uid, t) ==
    LET referrerId == Val(updatedUser.referred_by_user_id)
    IN IF updatedUser.lifetime_earnings >= REFERRAL_THRESHOLD
          /\ updatedUser.referral_unlocked = 0
       THEN << [op |-> "credit", uid |-> referrerId, amount |-> REFERRAL_BONUS, lifetime |-> 0],
               [op |-> "insert_tx",
                row |-> TxRow(RefBonusTxId(referrerId, t), referrerId, REFERRAL_BONUS,
                              "credit", "referral_bonus")],
               [op |-> "set_unlocked", uid |-> uid] >>
       ELSE << >>

\* a commission that also counts as earnings of the referrer
CommissionStmtsAsEarnings(updatedUser, points, t) ==
    LET referrerId == Val(updatedUser.referred_by_user_id)
        commission == Commission(points)
    IN IF commission > 0
       THEN << [op |-> "credit", uid |-> referrerId, amount |-> commission,
                lifetime |-> commission],
               [op |-> "insert_tx",
                row |-> TxRow(RefCommTxId(referrerId, t), referrerId, commission,
                              "credit", "referral_commission")] >>
       ELSE << >>

\* lines 1641-1655: commission on every credit
CommissionStmts(updatedUser, points, t) ==
    LET referrerId == Val(updatedUser.referred_by_user_id)
        commission == Commission(points)
    IN IF commission > 0
       THEN << [op |-> "credit", uid |-> referrerId, amount |-> commission, lifetime |-> 0],
               [op |-> "insert_tx",
                row |-> TxRow(RefCommTxId(referrerId, t), referrerId, commission,
                              "credit", "referral_commission")] >>
       ELSE << >>

\* lines 1617-1656: the referral section, from the database as the credit left it
ReferralStmts(db2, req, t) ==
    IF HasUser(db2, req.user_id) /\ ~IsNull(db2.users[req.user_id].referred_by_user_id)
    THEN UnlockStmts(db2.users[req.user_id], req.user_id, t)
         \o CommissionStmts(db2.users[req.user_id], PostbackPoints(req.payout), t)
    ELSE << >>

\* every statement of a postback that passed validation, in order
PostbackStmts(db, req, t) ==
    CreditStmts(req) \o ReferralStmts(RunAll(db, CreditStmts(req)).db, req, t)

\* the handler; k: the statements run before the process stops (all of
\* them in a run that is not cut)
PostbackRun(db, req, t, wl, k) ==
    LET v == PostbackValidation(db, req, wl)
    IN IF v # "" THEN [db |-> db, code |-> v, ran |-> 0]
       ELSE LET r == RunStmts(db, PostbackStmts(db, req, t), k)
            IN [db |-> r.db, code |-> IF r.ok THEN "Credited" ELSE "ServerError",
                ran |-> r.ran]

PostbackLen(db, req, t, wl) ==
    IF PostbackValidation(db, req, wl) # "" THEN 0 ELSE Len(PostbackStmts(db, req, t))

Postback(db, req, t, wl) == PostbackRun(db, req, t, wl, PostbackLen(db, req, t, wl))

-----------------------------------------------------------------------------
(* POST /api/withdraw *)

\* Math.ceil(a / b) for b > 0
CeilDiv(a, b) == -((-a) \div b)

\* lines 1736: Date.now() - new Date(user.created_at).getTime()
AccountAge(user, t, offset) == t - JsDateParse(user.created_at, offset)

\* lines 1735-1745: the cool-down applies
CooldownActive(user, t, offset) ==
    IsNull(user.first_withdrawal_at) /\ AccountAge(user, t, offset) < SEVEN_DAYS_MS

DaysRemaining(user, t, offset) ==
    CeilDiv(SEVEN_DAYS_MS - AccountAge(user, t, offset), DAY_MS)

\* a balance endpoint that rounds the remaining days down
UserBalanceDaysRoundedDown(db, uid, t, offset) ==
    IF ~HasUser(db, uid)
    THEN [code |-> "UserNotFound", canWithdraw |-> FALSE, daysRemaining |-> 0]
    ELSE LET user == db.users[uid]
             accountAge == t - JsDateParse(user.created_at, offset)
         IN IF IsNull(user.first_withdrawal_at) /\ accountAge < SEVEN_DAYS_MS
            THEN [code |-> "Ok", canWithdraw |-> FALSE,
                  daysRemaining |-> (SEVEN_DAYS_MS - accountAge) \div DAY_MS]
            ELSE [code |-> "Ok", canWithdraw |-> TRUE, daysRemaining |-> 0]

\* GET /api/user/balance, lines 1427-1465: the 7-day rule as the balance
\* endpoint computes it (lines 1438-1449)
UserBalance(db, uid, t, offset) ==
    IF ~HasUser(db, uid)
    THEN [code |-> "UserNotFound", canWithdraw |-> FALSE, daysRemaining |-> 0]
    ELSE LET user == db.users[uid]
             accountAge == t - JsDateParse(user.created_at, offset)
         IN IF IsNull(user.first_withdrawal_at) /\ accountAge < SEVEN_DAYS_MS
            THEN [code |-> "Ok", canWithdraw |-> FALSE,
                  daysRemaining |-> CeilDiv(SEVEN_DAYS_MS - accountAge, DAY_MS)]
            ELSE [code |-> "Ok", canWithdraw |-> TRUE, daysRemaining |-> 0]

\* a handler that never compares the balance with the price
BalanceNeverCompared(user, reward) == FALSE

\* a handler that only refuses an empty balance
BalanceOnlyPositive(user, reward) == user.balance <= 0

\* line 1748
InsufficientBalance(user, reward) == user.balance < reward.price

\* the checks with the balance compared before the cool-down
WithdrawValidationBalanceFirst(db, req, t, offset) ==
    IF req.rewardId = "" THEN "RewardIdRequired"
    ELSE IF IsNull(getRewardById(req.rewardId)) THEN "RewardNotFound"
    ELSE IF Val(getRewardById(req.rewardId)).stock = 0 THEN "OutOfStock"
    ELSE IF ~HasUser(db, req.uid) THEN "UserNotFound"
    ELSE IF db.users[req.uid].balance < Val(getRewardById(req.rewardId)).price
        THEN "InsufficientBalance"
    ELSE IF CooldownActive(db.users[req.uid], t, offset) THEN "CooldownActive"
    ELSE ""

\* lines 1708-1755: the answer of the checks, "" when they pass
\* req = [uid, rewardId] (rewardId "" when the body has none)
WithdrawValidation(db, req, t, offset) ==
    IF req.rewardId = "" THEN "RewardIdRequired"
    ELSE IF IsNull(getRewardById(req.rewardId)) THEN "RewardNotFound"
    ELSE IF Val(getRewardById(req.rewardId)).stock = 0 THEN "OutOfStock"
    ELSE IF ~HasUser(db, req.uid) THEN "UserNotFound"
    ELSE IF CooldownActive(db.users[req.uid], t, offset) THEN "CooldownActive"
    ELSE IF InsufficientBalance(db.users[req.uid], Val(getRewardById(req.rewardId)))
        THEN "InsufficientBalance"
    ELSE ""

WithdrawalRow(uid, reward) ==
    [user_id |-> uid, reward_id |-> reward.id, reward_name |-> reward.name,
     points_spent |-> reward.price, status |-> "pending"]

\* deliveryInfo || null, for a request that may carry no deliveryInfo
DeliveryInfo(req) ==
    IF "deliveryInfo" \in DOMAIN req THEN req.deliveryInfo ELSE NULL

\* the ledger entry written with a signed amount
WithdrawStmtsSignedAmount(req, t) ==
    LET reward == Val(getRewardById(req.rewardId))
    IN << [op |-> "debit", uid |-> req.uid, amount |-> reward.price, at |-> t],
          [op |-> "insert_tx",
           row |-> TxRow(WithdrawTxId(req.uid, t), req.uid, 0 - reward.price,
                         "debit", "withdrawal")],
          [op |-> "insert_withdrawal",
           row |-> WithdrawalRow(req.uid, reward) @@ [delivery_info |-> DeliveryInfo(req)]] >>

\* lines 1757-1777
WithdrawStmts(req, t) ==
    LET reward == Val(getRewardById(req.rewardId))
    IN << [op |-> "debit", uid |-> req.uid, amount |-> reward.price, at |-> t],
          [op |-> "insert_tx",
           row |-> TxRow(WithdrawTxId(req.uid, t), req.uid, reward.price, "debit", "withdrawal")],
          [op |-> "insert_withdrawal",
           row |-> WithdrawalRow(req.uid, reward) @@ [delivery_info |-> DeliveryInfo(req)]] >>

WithdrawRun(db, req, t, offset, k) ==
    LET v == WithdrawValidation(db, req, t, offset)
    IN IF v # "" THEN [db |-> db, code |-> v, ran |-> 0]
       ELSE LET r == RunStmts(db, WithdrawStmts(req, t), k)
            IN [db |-> r.db, code |-> IF r.ok THEN "OK" ELSE "ServerError", ran |-> r.ran]

WithdrawLen(db, req, t, offset) ==
    IF WithdrawValidation(db, req, t, offset) # "" THEN 0 ELSE 3

\* a handler without the comparison of line 1748 on a users table created
\* without the CHECK of line 181
WithdrawUnguarded(db, req, t, offset) ==
    IF req.rewardId = "" THEN [db |-> db, code |-> "RewardIdRequired", ran |-> 0]
    ELSE IF IsNull(getRewardById(req.rewardId))
        THEN [db |-> db, code |-> "RewardNotFound", ran |-> 0]
    ELSE IF Val(getRewardById(req.rewardId)).stock = 0
        THEN [db |-> db, code |-> "OutOfStock", ran |-> 0]
    ELSE IF ~HasUser(db, req.uid) THEN [db |-> db, code |-> "UserNotFound", ran |-> 0]
    ELSE IF CooldownActive(db.users[req.uid], t, offset)
        THEN [db |-> db, code |-> "CooldownActive", ran |-> 0]
    ELSE LET price == Val(getRewardById(req.rewardId)).price
         IN [db |-> [db EXCEPT !.users[req.uid].balance = @ - price,
                               !.users[req.uid].total_withdrawn = @ + price],
             code |-> "OK", ran |-> 1]

Withdraw(db, req, t, offset) == WithdrawRun(db, req, t, offset, WithdrawLen(db, req, t, offset))

\* line 1705: the handler takes rewardId and deliveryInfo from the body and
\* nothing else.  body = [rewardId, deliveryInfo, price]: price stands for
\* any further field a client may send (NULL when it sends none)
WithdrawRequest(uid, body) ==
    [uid |-> uid, rewardId |-> body.rewardId, deliveryInfo |-> body.deliveryInfo]

\* a handler that charges the price of the body when the body has one
WithdrawOfBodyClientPrice(db, uid, body, t, offset) ==
    LET req == WithdrawRequest(uid, body)
        v == WithdrawValidation(db, req, t, offset)
        price == IF IsNull(body.price) THEN Val(getRewardById(body.rewardId)).price
                 ELSE Val(body.price)
    IN IF v # "" THEN [db |-> db, code |-> v, ran |-> 0]
       ELSE LET r == RunAll(db,
                    << [op |-> "debit", uid |-> uid, amount |-> price, at |-> t],
                       [op |-> "insert_tx",
                        row |-> TxRow(WithdrawTxId(uid, t), uid, price, "debit", "withdrawal")],
                       [op |-> "insert_withdrawal",
                        row |-> [WithdrawalRow(uid, Val(getRewardById(body.rewardId)))
                                    EXCEPT !.points_spent = price]
                                @@ [delivery_info |-> DeliveryInfo(req)]] >>)
            IN [db |-> r.db, code |-> IF r.ok THEN "OK" ELSE "ServerError", ran |-> r.ran]

\* POST /api/withdraw with body body, sent by user uid
WithdrawOfBody(db, uid, body, t, offset) ==
    Withdraw(db, WithdrawRequest(uid, body), t, offset)

\* lines 1784 and 1796: newBalance of the answer to an accepted withdrawal
WithdrawNewBalance(db, req, t, offset) ==
    LET updated == Withdraw(db, req, t, offset).db
    IN IF HasUser(updated, req.uid) THEN updated.users[req.uid].balance ELSE 0

\* HTTP status of an answer
StatusOf(code) ==
    CASE code \in {"Credited", "AlreadyProcessed", "OK", "LoginNew", "LoginExisting",
                   "Applied"} -> 200
      [] code \in {"MissingParams", "InvalidPayout", "RewardIdRequired", "OutOfStock",
                   "InsufficientBalance"} -> 400
      [] code \in {"InvalidSecret", "IpNotAuthorized", "CooldownActive"} -> 403
      [] code \in {"RefCodeRequired", "AlreadyReferred", "OwnCode", "SameIp"} -> 400
      [] code \in {"UserNotFound", "RewardNotFound", "InvalidRefCode"} -> 404
      [] OTHER -> 500

-----------------------------------------------------------------------------
(* POST /api/user/apply-referral *)

\* the checks without the one of lines 1060-1063
ApplyReferralValidationNoReferrerCheck(db, req) ==
    IF IsNull(req.refCode) THEN "RefCodeRequired"
    ELSE IF IsNull(UserByReferralCode(db, Val(req.refCode))) THEN "InvalidRefCode"
    ELSE IF Val(UserByReferralCode(db, Val(req.refCode))).id = req.uid THEN "OwnCode"
    ELSE IF Val(UserByReferralCode(db, Val(req.refCode))).ip_address = req.ip THEN "SameIp"
    ELSE ""

\* req = [uid, ip, refCode] (refCode NULL when the body has none)
ApplyReferralValidation(db, req) ==
    IF IsNull(req.refCode) THEN "RefCodeRequired"
    ELSE IF HasUser(db, req.uid) /\ ~IsNull(db.users[req.uid].referred_by_user_id)
        THEN "AlreadyReferred"
    ELSE IF IsNull(UserByReferralCode(db, Val(req.refCode))) THEN "InvalidRefCode"
    ELSE IF Val(UserByReferralCode(db, Val(req.refCode))).id = req.uid THEN "OwnCode"
    ELSE IF Val(UserByReferralCode(db, Val(req.refCode))).ip_address = req.ip THEN "SameIp"
    ELSE ""

ApplyReferralStmts(db, req) ==
    << [op |-> "set_referrer", uid |-> req.uid,
        referrer |-> Val(UserByReferralCode(db, Val(req.refCode))).id] >>

ApplyReferral(db, req) ==
    LET v == ApplyReferralValidation(db, req)
    IN IF v # "" THEN [db |-> db, code |-> v]
       ELSE LET r == RunAll(db, ApplyReferralStmts(db, req))
            IN [db |-> r.db, code |-> IF r.ok THEN "Applied" ELSE "ServerError"]

-----------------------------------------------------------------------------
(* The state machine *)

\* an export that leaves the transactions table out
saveUsersOnly(db) == [db EXCEPT !.transactions = << >>]

\* Database.save: the file holds the export of the open database
save(db) == db

\* Database.init on an existing file: the open database is the file's content
Load(f) == f

\* the handler leaves db; Database.run has saved after each statement
SetDB(db) ==
    /\ users' = db.users
    /\ transactions' = db.transactions
    /\ withdrawals' = db.withdrawals
    /\ file' = save(db)

\* startServer on an empty data directory, no request handled yet; the
\* server's zone is UTC and no allow-list is configured
Init ==
    /\ users = EmptyDB.users
    /\ transactions = EmptyDB.transactions
    /\ withdrawals = EmptyDB.withdrawals
    /\ file = EmptyDB
    /\ now = 0
    /\ tz = 0
    /\ whitelist = {}
    /\ inflight = EmptyBag
    /\ resp = << >>

\* The clock of the ledger specification moves in steps of 7 days: two
\* requests with no step between them fall in the same millisecond.
TicksUsed == now \div SEVEN_DAYS_MS

Tick ==
    /\ TicksUsed < MaxTicks
    /\ now' = now + SEVEN_DAYS_MS
    /\ UNCHANGED <<users, transactions, withdrawals, file, tz, whitelist, inflight, resp>>

\* Request alphabets of the ledger specification: u1 signs up without a
\* code; u2 signs up with u1's code or none, earns, applies a code, withdraws.
HomeIp == [u \in UserIds |-> IF u = "u1" THEN "ip1" ELSE "ip2"]
LoginReqs ==
    {r \in [email : {"u1", "u2"}, ip : IPs, refCode : {NULL, Some("u1")}] :
        r.ip = HomeIp[r.email] /\ (r.email = "u1" => IsNull(r.refCode))}
ApplyReqs == [uid : {"u2"}, ip : {"ip2"}, refCode : {Some("u1"), Some("u2")}]

ValidPayouts == {PayoutNum(200), PayoutNum(60000)}
GoodPostback(uid, payout, id) ==
    [user_id |-> uid, payout |-> payout, transaction_id |-> Some(id),
     secret |-> LOOTABLY_SECRET, ip |-> "ip1"]
GoodPostbacks ==
    {GoodPostback("u2", p, id) : p \in ValidPayouts, id \in PartnerTxIds}
BadPostbacks ==
    { [GoodPostback("u2", PayoutNum(200), PartnerTx("tx1")) EXCEPT !.payout = PayoutGarbage],
      [GoodPostback("u2", PayoutNum(200), PartnerTx("tx1")) EXCEPT !.payout = PayoutNum(50)],
      [GoodPostback("u2", PayoutNum(200), PartnerTx("tx1")) EXCEPT !.secret = "wrong"] }
PostbackReqs == GoodPostbacks \cup BadPostbacks
WithdrawReqs == [uid : {"u2"}, rewardId : RewardIds]

\* a login of an email that has an account, or of the next new user
LoginReq ==
    \E req \in LoginReqs :
        /\ HasUser(DB, req.email) \/ (CanCreate(DB) /\ req.email = uuidv4(DB))
        /\ SetDB(AuthLogin(DB, req, now).db)
        /\ UNCHANGED <<now, tz, whitelist, inflight, resp>>

ApplyReq ==
    \E req \in ApplyReqs :
        /\ SetDB(ApplyReferral(DB, req).db)
        /\ UNCHANGED <<now, tz, whitelist, inflight, resp>>

PostbackReq ==
    \E req \in PostbackReqs :
        /\ SetDB(Postback(DB, req, now, whitelist).db)
        /\ UNCHANGED <<now, tz, whitelist, inflight, resp>>

WithdrawReq ==
    \E req \in WithdrawReqs :
        /\ Len(withdrawals) < MaxWithdrawals
        /\ SetDB(Withdraw(DB, req, now, tz).db)
        /\ UNCHANGED <<now, tz, whitelist, inflight, resp>>

Next == Tick \/ LoginReq \/ ApplyReq \/ PostbackReq \/ WithdrawReq

Spec == Init /\ [][Next]_vars

-----------------------------------------------------------------------------
(* Requests in flight.  The server is one Node process (ecosystem config:  *)
(* instances 1, fork mode) and the handlers of the postback and withdrawal *)
(* routes contain no await: each runs to its answer before the next one    *)
(* starts.  Requests issued concurrently are requests that have all arrived*)
(* before any of them is handled; the event loop then handles them in some *)
(* order.  resp keeps what each handled request was answered and did.      *)

NoPostback == GoodPostback("", PayoutMissing, PartnerTx(""))
NoWithdraw == [uid |-> "", rewardId |-> ""]
PostbackMsg(pb) == [kind |-> "postback", pb |-> pb, wd |-> NoWithdraw]
WithdrawMsg(wd) == [kind |-> "withdraw", pb |-> NoPostback, wd |-> wd]

\* u1 has referred u2 and u3; all three signed up at instant 0
SeedDB ==
    LET d1 == AuthLogin(EmptyDB, [email |-> "u1", ip |-> "ip1", refCode |-> NULL], 0).db
        d2 == AuthLogin(d1, [email |-> "u2", ip |-> "ip2", refCode |-> Some("u1")], 0).db
    IN AuthLogin(d2, [email |-> "u3", ip |-> "ip2", refCode |-> Some("u1")], 0).db

ConcPostbacks ==
    { GoodPostback("u2", PayoutNum(60000), PartnerTx("tx1")),
      GoodPostback("u3", PayoutNum(60000), PartnerTx("tx2")),
      GoodPostback("u3", PayoutNum(200), PartnerTx("tx3")),
      GoodPostback("u3", PayoutNum(200), PartnerTx("tx1")),
      GoodPostback("nobody", PayoutNum(60000), PartnerTx("tx1")) }
ConcWithdraws == [uid : {"u2"}, rewardId : {"r40", "r500"}]
ConcMsgs == {PostbackMsg(pb) : pb \in ConcPostbacks} \cup {WithdrawMsg(wd) : wd \in ConcWithdraws}

\* the user a request is about
Subject(msg) == IF msg.kind = "postback" THEN msg.pb.user_id ELSE msg.wd.uid

HandlerOf(db, msg, t, offset, wl) ==
    IF msg.kind = "postback" THEN Postback(db, msg.pb, t, wl)
    ELSE Withdraw(db, msg.wd, t, offset)

\* what a handled request was answered and did: the subject's balance before
\* it (0 if no such user), the change of every balance, the ledger rows
\* added, and the requests that were in flight with it
Outcome(db, msg, r, others) ==
    [msg |-> msg, code |-> r.code,
     bal |-> IF HasUser(db, Subject(msg)) THEN db.users[Subject(msg)].balance ELSE 0,
     delta |-> [u \in DOMAIN db.users |-> r.db.users[u].balance - db.users[u].balance],
     rows |-> Len(r.db.transactions) - Len(db.transactions),
     others |-> others]

InitConc ==
    /\ users = SeedDB.users
    /\ transactions = SeedDB.transactions
    /\ withdrawals = SeedDB.withdrawals
    /\ file = SeedDB
    /\ now = SEVEN_DAYS_MS
    /\ tz = 0
    /\ whitelist = {}
    /\ inflight = EmptyBag
    /\ resp = << >>

Receive ==
    \E msg \in ConcMsgs :
        /\ BagCardinality(inflight) < MaxInflight
        /\ BagCardinality(inflight) + Len(resp) < MaxRequests
        /\ inflight' = inflight (+) SetToBag({msg})
        /\ UNCHANGED <<users, transactions, withdrawals, file, now, tz, whitelist, resp>>

\* the event loop runs the handler of any one of the requests in flight
Handle ==
    \E msg \in BagToSet(inflight) :
        LET r == HandlerOf(DB, msg, now, tz, whitelist)
        IN /\ SetDB(r.db)
           /\ inflight' = inflight (-) SetToBag({msg})
           /\ resp' = Append(resp, Outcome(DB, msg, r, BagCardinality(inflight) - 1))
           /\ UNCHANGED <<now, tz, whitelist>>

\* requests are handled in one millisecond or in the next one
ConcInstants == {SEVEN_DAYS_MS, SEVEN_DAYS_MS + 1}

ConcTick ==
    \E t \in ConcInstants :
        /\ t > now
        /\ now' = t
        /\ UNCHANGED <<users, transactions, withdrawals, file, tz, whitelist, inflight, resp>>

NextConc == Receive \/ Handle \/ ConcTick

SpecConc == InitConc /\ [][NextConc]_vars


-----------------------------------------------------------------------------
(* The process stops in the middle of a handler.  Database.run writes the  *)
(* whole database to its file after every statement (lines 267-270 and     *)
(* 298-302) and no handler opens a transaction, so the file read back by   *)
(* startServer holds the statements that ran before the stop.              *)

InitCrash ==
    /\ users = SeedDB.users
    /\ transactions = SeedDB.transactions
    /\ withdrawals = SeedDB.withdrawals
    /\ file = SeedDB
    /\ now = SEVEN_DAYS_MS
    /\ tz = 0
    /\ whitelist = {}
    /\ inflight = EmptyBag
    /\ resp = << >>

\* a postback is cut after k of its statements; the restarted process serves
\* from the file at a later instant
CrashPostback ==
    \E req \in GoodPostbacks :
        \E k \in 0..(PostbackLen(DB, req, now, whitelist) - 1) :
            /\ now < SEVEN_DAYS_MS + MaxTicks
            /\ SetDB(PostbackRun(DB, req, now, whitelist, k).db)
            /\ now' = now + 1
            /\ UNCHANGED <<tz, whitelist, inflight, resp>>

CrashWithdraw ==
    \E req \in WithdrawReqs :
        \E k \in 0..(WithdrawLen(DB, req, now, tz) - 1) :
            /\ now < SEVEN_DAYS_MS + MaxTicks
            /\ Len(withdrawals) < MaxWithdrawals
            /\ SetDB(WithdrawRun(DB, req, now, tz, k).db)
            /\ now' = now + 1
            /\ UNCHANGED <<tz, whitelist, inflight, resp>>

\* the clock passes to the next millisecond
TickMs ==
    /\ now < SEVEN_DAYS_MS + MaxTicks
    /\ now' = now + 1
    /\ UNCHANGED <<users, transactions, withdrawals, file, tz, whitelist, inflight, resp>>

NextCrash == CrashPostback \/ CrashWithdraw \/ PostbackReq \/ WithdrawReq \/ TickMs

SpecCrash == InitCrash /\ [][NextCrash]_vars

-----------------------------------------------------------------------------
(* The cool-down of the first withdrawal, at instants around its limit and *)
(* for a server whose local time is UTC, one hour ahead or one hour behind *)

TzOffsets == {0 - HOUR_MS, 0, HOUR_MS}
CoolInstants ==
    {0, 1, 999, 1000,
     SEVEN_DAYS_MS - HOUR_MS, SEVEN_DAYS_MS - 1, SEVEN_DAYS_MS, SEVEN_DAYS_MS + 999,
     SEVEN_DAYS_MS + 1000, SEVEN_DAYS_MS + HOUR_MS, SEVEN_DAYS_MS + HOUR_MS + 1000}
CoolLogins == {[email |-> "u1", ip |-> "ip1", refCode |-> NULL]}
CoolWithdraws == [uid : {"u1"}, rewardId : {"r40", "r500"}]

InitCooldown ==
    /\ users = EmptyDB.users
    /\ transactions = EmptyDB.transactions
    /\ withdrawals = EmptyDB.withdrawals
    /\ file = EmptyDB
    /\ now = 0
    /\ tz \in TzOffsets
    /\ whitelist = {}
    /\ inflight = EmptyBag
    /\ resp = << >>

\* the clock passes to a later instant
CoolTick ==
    \E t \in CoolInstants :
        /\ t > now
        /\ now' = t
        /\ UNCHANGED <<users, transactions, withdrawals, file, tz, whitelist, inflight, resp>>

CoolLogin ==
    \E req \in CoolLogins :
        /\ SetDB(AuthLogin(DB, req, now).db)
        /\ UNCHANGED <<now, tz, whitelist, inflight, resp>>

CoolWithdraw ==
    \E req \in CoolWithdraws :
        /\ Len(withdrawals) < MaxWithdrawals
        /\ SetDB(Withdraw(DB, req, now, tz).db)
        /\ UNCHANGED <<now, tz, whitelist, inflight, resp>>

NextCooldown == CoolTick \/ CoolLogin \/ CoolWithdraw

SpecCooldown == InitCooldown /\ [][NextCooldown]_vars

-----------------------------------------------------------------------------
(* The validation block of the postback, for requests with any parameter   *)
(* absent, wrong or invalid, with and without an address allow-list.  resp *)
(* holds the last postback handled: the request, its answer and the        *)
(* database it was handled on.                                             *)

Whitelists == {{}, {"ip1"}}
ValPostbacks ==
    [user_id : {"", "u2", "nobody"},
     payout : {PayoutMissing, PayoutGarbage, PayoutNum(50), PayoutNum(200)},
     transaction_id : {NULL, Some(PartnerTx("tx1"))},
     secret : {"", "wrong", LOOTABLY_SECRET},
     ip : IPs]

InitValidation ==
    /\ users = EmptyDB.users
    /\ transactions = EmptyDB.transactions
    /\ withdrawals = EmptyDB.withdrawals
    /\ file = EmptyDB
    /\ now = 0
    /\ tz = 0
    /\ whitelist \in Whitelists
    /\ inflight = EmptyBag
    /\ resp = << >>

ValLogin ==
    \E req \in LoginReqs :
        /\ HasUser(DB, req.email) \/ (CanCreate(DB) /\ req.email = uuidv4(DB))
        /\ SetDB(AuthLogin(DB, req, now).db)
        /\ resp' = << >>
        /\ UNCHANGED <<now, tz, whitelist, inflight>>

ValPostback ==
    \E req \in ValPostbacks :
        LET r == Postback(DB, req, now, whitelist)
        IN /\ SetDB(r.db)
           /\ resp' = << [req |-> req, code |-> r.code, before |-> DB] >>
           /\ UNCHANGED <<now, tz, whitelist, inflight>>

NextValidation == ValLogin \/ ValPostback

SpecValidation == InitValidation /\ [][NextValidation]_vars

-----------------------------------------------------------------------------
(* GET /api/user/transactions.  A query parameter is text: absent or not   *)
(* starting with a number, or starting with the integer val.  An entry of  *)
(* the listing is the position of its row in the table (the order the rows *)
(* were written in).                                                       *)

QueryAbsent == [num |-> FALSE, val |-> 0]
QueryInt(n) == [num |-> TRUE, val |-> n]

\* parseInt(text) || dflt: NaN and 0 are falsy
ParseIntOr(q, dflt) == IF q.num /\ q.val # 0 THEN q.val ELSE dflt

Min(a, b) == IF a <= b THEN a ELSE b

LISTING_DEFAULT == 50
LISTING_CAP == 100

\* Math.min(parseInt(req.query.limit) || 50, 100)
ListingLimit(q) == Min(ParseIntOr(q, LISTING_DEFAULT), LISTING_CAP)

\* parseInt(req.query.offset) || 0
ListingOffset(q) == ParseIntOr(q, 0)

\* created_at DATETIME DEFAULT CURRENT_TIMESTAMP: a row inserted at instant
\* t without the column gets t cut to whole seconds
Stamp(db, t) ==
    [db EXCEPT !.transactions =
        [i \in 1..Len(db.transactions) |->
            IF "created_at" \in DOMAIN db.transactions[i]
            THEN db.transactions[i]
            ELSE db.transactions[i] @@ [created_at |-> SqlDatetimeNow(t)]]]

\* WHERE user_id = ?
RowsOf(db, uid) == {i \in 1..Len(db.transactions) : db.transactions[i].user_id = uid}

\* every order of the finite set S, as sequences
RECURSIVE OrdersOf(_)
OrdersOf(S) ==
    IF S = {} THEN { << >> }
    ELSE UNION { { <<x>> \o rest : rest \in OrdersOf(S \ {x}) } : x \in S }

\* ORDER BY created_at DESC: every order of the rows idx in which created_at
\* never increases.  SQL leaves the order of rows with equal keys open: the
\* rows that share their created_at with another row come in any order tie
\* among themselves.
OrderByCreatedAtDesc(rows, idx) ==
    LET scan == SelectSeq([i \in 1..Len(rows) |-> i], LAMBDA i : i \in idx)
        base == SortSeq(scan, LAMBDA a, b : rows[a].created_at > rows[b].created_at
                                            \/ (rows[a].created_at = rows[b].created_at /\ a < b))
        tied == {base[k] : k \in {h \in 1..Len(base) :
                    \/ (h > 1 /\ rows[base[h - 1]].created_at = rows[base[h]].created_at)
                    \/ (h < Len(base) /\ rows[base[h + 1]].created_at = rows[base[h]].created_at)}}
        At(tie, i) == CHOOSE a \in 1..Len(tie) : tie[a] = i
    IN { SortSeq(scan, LAMBDA a, b : rows[a].created_at > rows[b].created_at
                                     \/ (/\ rows[a].created_at = rows[b].created_at
                                         /\ At(tie, a) < At(tie, b))) :
            tie \in OrdersOf(tied) }

\* LIMIT ? OFFSET ?: a negative limit is no limit, a negative offset is 0
LimitOffset(sorted, limit, offset) ==
    LET skip == IF offset < 0 THEN 0 ELSE Min(offset, Len(sorted))
        rest == SubSeq(sorted, skip + 1, Len(sorted))
    IN IF limit < 0 THEN rest ELSE SubSeq(rest, 1, Min(limit, Len(rest)))

\* the answers the handler can give to req = [uid, limit, offset]
UserTransactions(db, req) ==
    { [transactions |-> LimitOffset(sorted, ListingLimit(req.limit), ListingOffset(req.offset)),
       limit |-> ListingLimit(req.limit),
       offset |-> ListingOffset(req.offset),
       total |-> Cardinality(RowsOf(db, req.uid)),
       hasMore |-> ListingOffset(req.offset)
                     + Len(LimitOffset(sorted, ListingLimit(req.limit), ListingOffset(req.offset)))
                     < Cardinality(RowsOf(db, req.uid))] :
        sorted \in OrderByCreatedAtDesc(db.transactions, RowsOf(db, req.uid)) }

\* The listing specification: u1 has referred u2 and u3 and has received
\* either no commission yet or MaxEntries of them, one per second; u2 earns
\* once more; any user lists with any limit and offset.  resp holds the
\* last listing request and its answer.
CommissionHistory(n) ==
    [i \in 1..n |->
        TxRow(RefCommTxId("u1", i * 1000), "u1", 30, "credit", "referral_commission")
            @@ [created_at |-> SqlDatetimeNow(i * 1000)]]

ListingSeed(n) ==
    LET seed == Stamp(SeedDB, 0)
    IN [seed EXCEPT !.transactions = @ \o CommissionHistory(n),
                    !.users["u1"].balance = @ + 30 * n,
                    !.users["u1"].total_earned = @ + 30 * n]

LimitTexts == {QueryAbsent, QueryInt(0), QueryInt(-1), QueryInt(2), QueryInt(100), QueryInt(1000)}
OffsetTexts == {QueryAbsent, QueryInt(-1), QueryInt(1), QueryInt(100)}
ListingReqs == [uid : {"u1", "u2"}, limit : LimitTexts, offset : OffsetTexts]
ListingPostbacks == {GoodPostback("u2", PayoutNum(60000), PartnerTx("tx1"))}

InitListing ==
    \E n \in {0, MaxEntries} :
        /\ users = ListingSeed(n).users
        /\ transactions = ListingSeed(n).transactions
        /\ withdrawals = ListingSeed(n).withdrawals
        /\ file = ListingSeed(n)
        /\ now = (MaxEntries + 1) * 1000
        /\ tz = 0
        /\ whitelist = {}
        /\ inflight = EmptyBag
        /\ resp = << >>

ListPostback ==
    \E req \in ListingPostbacks :
        /\ SetDB(Stamp(Postback(DB, req, now, whitelist).db, now))
        /\ resp' = << >>
        /\ UNCHANGED <<now, tz, whitelist, inflight>>

ListTransactions ==
    \E req \in ListingReqs :
        \E answer \in UserTransactions(DB, req) :
            /\ resp' = << [req |-> req, answer |-> answer] >>
            /\ UNCHANGED <<users, transactions, withdrawals, file, now, tz, whitelist, inflight>>

NextListing == ListPostback \/ ListTransactions

SpecListing == InitListing /\ [][NextListing]_vars

-----------------------------------------------------------------------------
(* Withdrawal bodies.  u2 earns and withdraws with bodies that name a      *)
(* reward and carry, or not, a deliveryInfo and a price of the client's    *)
(* choosing.  resp holds the last withdrawal: the body, the answer, the    *)
(* instant and the database before and after it.                           *)

ClientPrices == {NULL, Some(0), Some(1), Some(40)}
WithdrawBodies ==
    [rewardId : {"r40", "r500", "rOut"}, deliveryInfo : {NULL, Some("mail")}, price : ClientPrices]
BodyPostbacks == {GoodPostback("u2", PayoutNum(60000), PartnerTx("tx1"))}

InitBody ==
    /\ users = SeedDB.users
    /\ transactions = SeedDB.transactions
    /\ withdrawals = SeedDB.withdrawals
    /\ file = SeedDB
    /\ now = SEVEN_DAYS_MS
    /\ tz = 0
    /\ whitelist = {}
    /\ inflight = EmptyBag
    /\ resp = << >>

BodyPostback ==
    \E req \in BodyPostbacks :
        /\ SetDB(Postback(DB, req, now, whitelist).db)
        /\ UNCHANGED <<now, tz, whitelist, inflight, resp>>

BodyWithdraw ==
    \E body \in WithdrawBodies :
        /\ Len(withdrawals) < MaxWithdrawals
        /\ SetDB(WithdrawOfBody(DB, "u2", body, now, tz).db)
        /\ resp' = << [uid |-> "u2", body |-> body,
                       code |-> WithdrawOfBody(DB, "u2", body, now, tz).code,
                       at |-> now, before |-> DB,
                       after |-> WithdrawOfBody(DB, "u2", body, now, tz).db] >>
        /\ UNCHANGED <<now, tz, whitelist, inflight>>

BodyTick ==
    \E t \in ConcInstants :
        /\ t > now
        /\ now' = t
        /\ UNCHANGED <<users, transactions, withdrawals, file, tz, whitelist, inflight, resp>>

NextBody == BodyPostback \/ BodyWithdraw \/ BodyTick

SpecBody == InitBody /\ [][NextBody]_vars

-----------------------------------------------------------------------------
(* The id space of the ledger.  The partner chooses transaction_id freely;  *)
(* the server writes it into transactions.id, the column that also holds    *)
(* the ids the server makes itself (bonus_<user>_<ms>, ref_bonus_...,       *)
(* ref_comm_..., withdraw_...).  Users sign up, the clock moves by a        *)
(* millisecond and the partner delivers postbacks whose transaction_id is   *)
(* a partner-style id or a text of the server's own format.  resp holds     *)
(* the transaction ids that delivered postbacks have carried so far.        *)

IdInstants == {0, 1}
IdTxIds ==
    {PartnerTx("tx1"), BonusTxId("u2", 0), RefCommTxId("u1", 1), RefBonusTxId("u1", 1)}
IdPostbacks == {GoodPostback("u2", p, id) : p \in ValidPayouts, id \in IdTxIds}

InitIds ==
    /\ users = << >>
    /\ transactions = << >>
    /\ withdrawals = << >>
    /\ file = [users |-> << >>, transactions |-> << >>, withdrawals |-> << >>]
    /\ now = 0
    /\ tz = 0
    /\ whitelist = {}
    /\ inflight = EmptyBag
    /\ resp = << [carried |-> {}] >>

IdLogin ==
    \E req \in LoginReqs :
        /\ HasUser(DB, req.email) \/ (CanCreate(DB) /\ req.email = uuidv4(DB))
        /\ SetDB(AuthLogin(DB, req, now).db)
        /\ UNCHANGED <<now, tz, whitelist, inflight, resp>>

IdPostback ==
    \E req \in IdPostbacks :
        /\ SetDB(Postback(DB, req, now, whitelist).db)
        /\ resp' = << [carried |-> resp[1].carried \cup {Val(req.transaction_id)}] >>
        /\ UNCHANGED <<now, tz, whitelist, inflight>>

IdTick ==
    \E t \in IdInstants :
        /\ t > now
        /\ now' = t
        /\ UNCHANGED <<users, transactions, withdrawals, file, tz, whitelist, inflight, resp>>

NextIds == IdLogin \/ IdPostback \/ IdTick

SpecIds == InitIds /\ [][NextIds]_vars

-----------------------------------------------------------------------------
(* The login endpoints.  Four handlers create the row of a user that has    *)
(* none: POST /api/auth/login and POST /api/user/login with the signup      *)
(* bonus, POST /api/auth/firebase and GET /api/auth/discord/callback with   *)
(* balance 0.  The first, third and fourth look the user up by email and    *)
(* make the id with uuidv4(); /api/user/login looks the user up by the uid  *)
(* of its token and uses that uid as the id.  users.email is UNIQUE.  Rows  *)
(* carry the email here.  resp holds the last login: endpoint, request,     *)
(* answer and the database before it.                                       *)

LoginEmails == {"a", "b"}

\* decodedToken.uid of the Firebase account of an email
FirebaseUid(email) == IF email = "a" THEN "fa" ELSE "fb"

EmailTaken(db, email) == \E u \in DOMAIN db.users : db.users[u].email = email

WithEmail(row, email) == row @@ [email |-> email]

\* lines 747-811: SELECT by email; an existing user only has profile columns
\* and last_login_at updated; a new one is inserted with the bonus
AuthLoginByEmail(db, req, t) ==
    IF EmailTaken(db, req.email)
    THEN [db |-> db, code |-> "LoginExisting"]
    ELSE LET stmts == SignupStmts(db, req.ip, NULL, t)
             r == RunAll(db, [stmts EXCEPT ![1].row = WithEmail(@, req.email)])
         IN [db |-> r.db, code |-> IF r.ok THEN "LoginNew" ELSE "ServerError"]

\* lines 1134-1159: INSERT INTO users (..., balance, ...) VALUES (..., 0, ...)
ZeroBalanceStmts(db, email, t) ==
    << [op |-> "insert_user",
        row |-> WithEmail([NewUserRow(uuidv4(db), NULL, NULL, t) EXCEPT !.balance = 0],
                          email)] >>

\* POST /api/auth/firebase, lines 1109-1185
AuthFirebase(db, req, t) ==
    IF EmailTaken(db, req.email)
    THEN [db |-> db, code |-> "LoginExisting"]
    ELSE LET r == RunAll(db, ZeroBalanceStmts(db, req.email, t))
         IN [db |-> r.db, code |-> IF r.ok THEN "LoginNew" ELSE "ServerError"]

\* GET /api/auth/discord/callback, lines 1218-1330 (user rows: 1281-1307)
AuthDiscordCallback(db, req, t) ==
    IF EmailTaken(db, req.email)
    THEN [db |-> db, code |-> "LoginExisting"]
    ELSE LET r == RunAll(db, ZeroBalanceStmts(db, req.email, t))
         IN [db |-> r.db, code |-> IF r.ok THEN "LoginNew" ELSE "ServerError"]

\* lines 1379-1394: the rows of a user created by /api/user/login
UserLoginStmts(uid, email, t) ==
    << [op |-> "insert_user", row |-> WithEmail(NewUserRow(uid, NULL, NULL, t), email)],
       [op |-> "insert_tx",
        row |-> TxRow(BonusTxId(uid, t), uid, SIGNUP_BONUS, "credit", "signup_bonus")],
       [op |-> "add_total_earned", uid |-> uid, amount |-> SIGNUP_BONUS] >>

\* POST /api/user/login, lines 1343-1414: SELECT by id; the INSERT of a row
\* whose email another row holds violates UNIQUE(email) and throws
UserLogin(db, req, t) ==
    IF HasUser(db, req.uid)
    THEN [db |-> db, code |-> "LoginExisting"]
    ELSE IF EmailTaken(db, req.email)
    THEN [db |-> db, code |-> "ServerError"]
    ELSE LET r == RunAll(db, UserLoginStmts(req.uid, req.email, t))
         IN [db |-> r.db, code |-> IF r.ok THEN "LoginNew" ELSE "ServerError"]

LoginEndpoints == {"auth_login", "auth_firebase", "auth_discord", "user_login"}

\* verifyAuth (lines 612-650): the token is the server's own JWT, whose uid
\* is the id of a row, or a Firebase token, whose uid is the Firebase uid
TokenUids(db, email) ==
    {FirebaseUid(email)} \cup {u \in DOMAIN db.users : db.users[u].email = email}

EmailLoginReqs == [email : LoginEmails, ip : {"ip1"}, uid : {""}]
LoginUids == {"fa", "fb", "u1", "u2"}
UserLoginReqs(db) ==
    {q \in [email : LoginEmails, ip : {"ip1"}, uid : LoginUids] :
        q.uid \in TokenUids(db, q.email)}

LoginOf(db, endpoint, req, t) ==
    CASE endpoint = "auth_login" -> AuthLoginByEmail(db, req, t)
      [] endpoint = "auth_firebase" -> AuthFirebase(db, req, t)
      [] endpoint = "auth_discord" -> AuthDiscordCallback(db, req, t)
      [] endpoint = "user_login" -> UserLogin(db, req, t)

LoginReqsOf(db, endpoint) ==
    IF endpoint = "user_login" THEN UserLoginReqs(db) ELSE EmailLoginReqs

LoginInstants == {0, 1}

InitLogin ==
    /\ users = EmptyDB.users
    /\ transactions = EmptyDB.transactions
    /\ withdrawals = EmptyDB.withdrawals
    /\ file = EmptyDB
    /\ now = 0
    /\ tz = 0
    /\ whitelist = {}
    /\ inflight = EmptyBag
    /\ resp = << >>

LoginLog(endpoint, req, r) ==
    << [endpoint |-> endpoint, req |-> req, code |-> r.code, before |-> DB] >>

LgnAuthLogin ==
    \E req \in EmailLoginReqs :
        /\ SetDB(AuthLoginByEmail(DB, req, now).db)
        /\ resp' = LoginLog("auth_login", req, AuthLoginByEmail(DB, req, now))
        /\ UNCHANGED <<now, tz, whitelist, inflight>>

LgnFirebase ==
    \E req \in EmailLoginReqs :
        /\ SetDB(AuthFirebase(DB, req, now).db)
        /\ resp' = LoginLog("auth_firebase", req, AuthFirebase(DB, req, now))
        /\ UNCHANGED <<now, tz, whitelist, inflight>>

LgnDiscord ==
    \E req \in EmailLoginReqs :
        /\ SetDB(AuthDiscordCallback(DB, req, now).db)
        /\ resp' = LoginLog("auth_discord", req, AuthDiscordCallback(DB, req, now))
        /\ UNCHANGED <<now, tz, whitelist, inflight>>

LgnUserLogin ==
    \E req \in UserLoginReqs(DB) :
        /\ SetDB(UserLogin(DB, req, now).db)
        /\ resp' = LoginLog("user_login", req, UserLogin(DB, req, now))
        /\ UNCHANGED <<now, tz, whitelist, inflight>>

LgnTick ==
    \E t \in LoginInstants :
        /\ t > now
        /\ now' = t
        /\ UNCHANGED <<users, transactions, withdrawals, file, tz, whitelist, inflight, resp>>

NextLogin == LgnAuthLogin \/ LgnFirebase \/ LgnDiscord \/ LgnUserLogin \/ LgnTick

SpecLogin == InitLogin /\ [][NextLogin]_vars

-----------------------------------------------------------------------------
(* The process is stopped and started again between postbacks: by a signal *)
(* (db.close saves, then the new process reads the file) or by a kill in   *)
(* the middle of a postback (the new process reads the file as the last    *)
(* statement left it).  Each write of the file is taken as whole.  now     *)
(* counts the starts; resp holds every answer given, with the start it was *)
(* given in.                                                               *)

RstPostbacks ==
    { GoodPostback("u2", PayoutNum(60000), PartnerTx("tx1")),
      GoodPostback("u3", PayoutNum(200), PartnerTx("tx1")),
      GoodPostback("u2", PayoutNum(200), PartnerTx("tx2")),
      GoodPostback("nobody", PayoutNum(200), PartnerTx("tx1")),
      [GoodPostback("u2", PayoutNum(60000), PartnerTx("tx1")) EXCEPT !.secret = "wrong"] }

\* the postback a kill interrupts
KilledPostbacks == {GoodPostback("u2", PayoutNum(60000), PartnerTx("tx1"))}

InitRestart ==
    /\ users = SeedDB.users
    /\ transactions = SeedDB.transactions
    /\ withdrawals = SeedDB.withdrawals
    /\ file = SeedDB
    /\ now = 0
    /\ tz = 0
    /\ whitelist = {}
    /\ inflight = EmptyBag
    /\ resp = << >>

\* startServer: db.init opens the database held by file f
Boot(f) ==
    /\ users' = Load(f).users
    /\ transactions' = Load(f).transactions
    /\ withdrawals' = Load(f).withdrawals

RstPostback ==
    \E req \in RstPostbacks :
        LET r == Postback(DB, req, now, whitelist)
        IN /\ Len(resp) < MaxRequests
           /\ SetDB(r.db)
           /\ resp' = Append(resp,
                  [req |-> req, code |-> r.code, at |-> now,
                   delta |-> [u \in DOMAIN users |-> r.db.users[u].balance - users[u].balance],
                   rows |-> Len(r.db.transactions) - Len(transactions)])
           /\ UNCHANGED <<now, tz, whitelist, inflight>>

\* SIGINT or SIGTERM: db.close saves, the process exits and is started again
Restart ==
    /\ now < MaxRestarts
    /\ file' = save(DB)
    /\ Boot(save(DB))
    /\ now' = now + 1
    /\ UNCHANGED <<tz, whitelist, inflight, resp>>

\* the process is killed after k statements of a postback, which gets no
\* answer, and is started again
RstKill ==
    \E req \in KilledPostbacks :
        \E k \in 0..(PostbackLen(DB, req, now, whitelist) - 1) :
            /\ now < MaxRestarts
            /\ file' = save(PostbackRun(DB, req, now, whitelist, k).db)
            /\ Boot(save(PostbackRun(DB, req, now, whitelist, k).db))
            /\ now' = now + 1
            /\ UNCHANGED <<tz, whitelist, inflight, resp>>

NextRestart == RstPostback \/ Restart \/ RstKill

SpecRestart == InitRestart /\ [][NextRestart]_vars

-----------------------------------------------------------------------------
(* The referral links.  Three users sign up from either address with any   *)
(* code or none (the code of a user with no account yet is an unknown       *)
(* code); every user who has an account applies any code from either        *)
(* address; u2 earns.  resp holds the last request handled: its kind, the   *)
(* request, its answer and the database it was handled on.                  *)

RefCodes == {NULL, Some("u1"), Some("u2"), Some("u3")}
RefLogins == [email : UserIds, ip : IPs, refCode : RefCodes]
RefApplies == [uid : UserIds, ip : IPs, refCode : RefCodes]
RefPostbacks == {GoodPostback("u2", PayoutNum(60000), PartnerTx("tx1"))}

InitReferral ==
    /\ users = EmptyDB.users
    /\ transactions = EmptyDB.transactions
    /\ withdrawals = EmptyDB.withdrawals
    /\ file = EmptyDB
    /\ now = 0
    /\ tz = 0
    /\ whitelist = {}
    /\ inflight = EmptyBag
    /\ resp = << >>

\* the sign-up of the next new user
RefLogin ==
    \E req \in RefLogins :
        /\ CanCreate(DB) /\ req.email = uuidv4(DB)
        /\ SetDB(AuthLogin(DB, req, now).db)
        /\ resp' = << [kind |-> "login", req |-> req,
                       code |-> AuthLogin(DB, req, now).code, before |-> DB] >>
        /\ UNCHANGED <<now, tz, whitelist, inflight>>

\* isAuthenticated: the session's user has an account
RefApply ==
    \E req \in RefApplies :
        /\ HasUser(DB, req.uid)
        /\ SetDB(ApplyReferral(DB, req).db)
        /\ resp' = << [kind |-> "apply", req |-> req,
                       code |-> ApplyReferral(DB, req).code, before |-> DB] >>
        /\ UNCHANGED <<now, tz, whitelist, inflight>>

RefPostback ==
    \E req \in RefPostbacks :
        /\ SetDB(Postback(DB, req, now, whitelist).db)
        /\ resp' = << [kind |-> "postback", req |-> req,
                       code |-> Postback(DB, req, now, whitelist).code, before |-> DB] >>
        /\ UNCHANGED <<now, tz, whitelist, inflight>>

NextReferral == RefLogin \/ RefApply \/ RefPostback

SpecReferral == InitReferral /\ [][NextReferral]_vars

-----------------------------------------------------------------------------
(* Properties of the ledger specification.  A request's answer is not part *)
(* of the state: a property about answers speaks of every request of the   *)
(* alphabet in every reachable state, through the handler's operator; the  *)
(* step that request takes leads to the handler's database.                *)

RECURSIVE SumFrom(_, _, _)
SumFrom(txs, uid, i) ==
    IF i > Len(txs) THEN 0
    ELSE (IF txs[i].user_id # uid THEN 0
          ELSE IF txs[i].type = "credit" THEN txs[i].amount
          ELSE 0 - txs[i].amount)
         + SumFrom(txs, uid, i + 1)

\* credits minus debits of the user's ledger entries
LedgerSum(db, uid) == SumFrom(db.transactions, uid, 1)

EntriesOf(db, uid, source) ==
    {i \in 1..Len(db.transactions) :
        db.transactions[i].user_id = uid /\ db.transactions[i].source = source}

\* C1: a postback that is credited raises the user's balance by
\* floor(payout * 1000 * 0.6) (payout 2.00 on a balance of 50 gives 1250).
C1_CreditIsSixtyPercent ==
    \A req \in PostbackReqs :
        LET r == Postback(DB, req, now, whitelist)
        IN r.code = "Credited" =>
              r.db.users[req.user_id].balance
                  = users[req.user_id].balance + pointsToCredit(req.payout)

\* C3: every user's balance is non-negative in every reachable state.
C3_BalanceNonNegative == \A u \in DOMAIN users : users[u].balance >= 0

\* a user has withdrawn and is left with less than the cheapest reward costs
C3_Witness ==
    \E u \in DOMAIN users :
        /\ users[u].total_withdrawn > 0
        /\ users[u].balance < 40
        /\ \E req \in WithdrawReqs :
              req.uid = u /\ Withdraw(DB, req, now, tz).code = "InsufficientBalance"

\* C4: with no request in progress, every user's balance is the signed sum
\* of the user's ledger entries.
C4_BalanceIsLedgerSum ==
    \A u \in DOMAIN users : users[u].balance = LedgerSum(DB, u)

\* C5 as stated: a withdrawal of an existing reward priced above the user's
\* balance is answered InsufficientBalance and changes nothing.
C5_AboveBalanceIsInsufficient ==
    \A req \in WithdrawReqs :
        LET reward == getRewardById(req.rewardId)
            r == Withdraw(DB, req, now, tz)
        IN (HasUser(DB, req.uid) /\ ~IsNull(reward)
            /\ Val(reward).price > users[req.uid].balance)
           => (r.code = "InsufficientBalance" /\ r.db = DB)

\* C5 amended: a withdrawal of a reward priced above the user's balance
\* changes nothing and is never accepted; it is answered InsufficientBalance
\* when the reward is in stock and the cool-down does not apply.
C5_AboveBalanceRejected ==
    \A req \in WithdrawReqs :
        LET reward == getRewardById(req.rewardId)
            r == Withdraw(DB, req, now, tz)
        IN (HasUser(DB, req.uid) /\ ~IsNull(reward)
            /\ Val(reward).price > users[req.uid].balance)
           => /\ r.db = DB
              /\ r.code \in {"OutOfStock", "CooldownActive", "InsufficientBalance"}
              /\ (Val(reward).stock > 0 /\ ~CooldownActive(users[req.uid], now, tz))
                    => r.code = "InsufficientBalance"

\* a user past the cool-down asks for a reward that costs more than the balance
C5_Witness ==
    \E req \in WithdrawReqs :
        /\ HasUser(DB, req.uid)
        /\ ~CooldownActive(users[req.uid], now, tz)
        /\ Val(getRewardById(req.rewardId)).stock > 0
        /\ Val(getRewardById(req.rewardId)).price > users[req.uid].balance
        /\ Withdraw(DB, req, now, tz).code = "InsufficientBalance"

\* C9: a postback that passes validation (accepted, not a duplicate) and
\* credits P points to a user with a referrer credits the referrer
\* floor(P * 5 / 100) with a referral_commission entry when that is positive,
\* whatever the unlock flag; the credit that brings the lifetime earnings to
\* the threshold with the flag unset pays the 50-point bonus as well.
C9_CommissionOnEveryCredit ==
    \A req \in PostbackReqs :
        LET r == Postback(DB, req, now, whitelist)
            uid == req.user_id
            P == req.payout.cents \div 100
            c == (P * 5) \div 100
            referrer == Val(users[uid].referred_by_user_id)
            unlocking == users[uid].referral_unlocked = 0
                         /\ users[uid].lifetime_earnings + P >= 500
            bonus == IF unlocking THEN 50 ELSE 0
        IN (PostbackValidation(DB, req, whitelist) = ""
            /\ ~IsNull(users[uid].referred_by_user_id))
           => /\ r.db.users[uid].balance = users[uid].balance + P
              /\ r.db.users[referrer].balance = users[referrer].balance + c + bonus
              /\ c > 0 =>
                    \E i \in EntriesOf(r.db, referrer, "referral_commission") :
                        /\ i > Len(transactions)
                        /\ r.db.transactions[i].amount = c
                        /\ r.db.transactions[i].type = "credit"
              /\ unlocking =>
                    \E i \in EntriesOf(r.db, referrer, "referral_bonus") :
                        i > Len(transactions) /\ r.db.transactions[i].amount = 50

-----------------------------------------------------------------------------
(* Properties of requests in flight (SpecConc) *)

PostbackEntries == {i \in 1..Len(resp) : resp[i].msg.kind = "postback"}
WithdrawEntries == {i \in 1..Len(resp) : resp[i].msg.kind = "withdraw"}
TxIdOf(i) == resp[i].msg.pb.transaction_id
ChangedNothing(i) == resp[i].rows = 0 /\ \A u \in DOMAIN resp[i].delta : resp[i].delta[u] = 0

\* the deliveries handled after a delivery of the same transaction_id that
\* wrote its ledger entry
Replays ==
    {j \in PostbackEntries :
        \E i \in PostbackEntries : i < j /\ TxIdOf(i) = TxIdOf(j) /\ resp[i].rows > 0}

\* C2 as stated: whatever user_id or payout it carries, every delivery after
\* the one that was credited is answered with success and changes nothing,
\* and the ledger holds one entry per id.
C2_EveryReplaySucceeds ==
    /\ \A i, j \in 1..Len(transactions) : transactions[i].id = transactions[j].id => i = j
    /\ \A j \in Replays : StatusOf(resp[j].code) = 200 /\ ChangedNothing(j)

\* C2 amended: the ledger holds one entry per id; a delivery after the one
\* that was credited changes no balance and no ledger entry; it is answered
\* AlreadyProcessed when it carries the secret, a payout of at least one
\* point and the id of an existing user, and is rejected otherwise.
C2_ReplayChangesNothing ==
    /\ \A i, j \in 1..Len(transactions) : transactions[i].id = transactions[j].id => i = j
    /\ \A j \in Replays :
          /\ ChangedNothing(j)
          /\ resp[j].code \in {"AlreadyProcessed", "MissingParams", "InvalidSecret",
                               "IpNotAuthorized", "InvalidPayout", "UserNotFound"}
          /\ PostbackValidation(DB, resp[j].msg.pb, whitelist) = "AlreadyProcessed"
                => resp[j].code = "AlreadyProcessed"

\* tx1 was credited to u2 while a delivery of tx1 for u3 with another payout
\* was in flight; that delivery was answered AlreadyProcessed
C2_Witness ==
    \E i, j \in PostbackEntries :
        /\ i < j /\ TxIdOf(i) = TxIdOf(j)
        /\ resp[i].code = "Credited" /\ resp[i].others >= 1
        /\ resp[i].msg.pb.user_id = "u2" /\ resp[j].msg.pb.user_id = "u3"
        /\ resp[i].msg.pb.payout # resp[j].msg.pb.payout
        /\ resp[j].code = "AlreadyProcessed"

PriceOf(i) == Val(getRewardById(resp[i].msg.wd.rewardId)).price

\* two withdrawals of one user with nothing else touching the user's balance
\* between them, where the balance covers one of them and not both
RacedWithdrawals ==
    {p \in WithdrawEntries \X WithdrawEntries :
        /\ p[1] < p[2]
        /\ resp[p[1]].msg.wd.uid = resp[p[2]].msg.wd.uid
        /\ resp[p[2]].bal = resp[p[1]].bal + resp[p[1]].delta[resp[p[1]].msg.wd.uid]
        /\ resp[p[1]].bal >= PriceOf(p[1]) \/ resp[p[1]].bal >= PriceOf(p[2])
        /\ resp[p[1]].bal < PriceOf(p[1]) + PriceOf(p[2])}

\* C6: of two concurrent withdrawals of one user whose balance covers one
\* of them and not both, one passes the balance check and is debited its
\* price, the other is answered InsufficientBalance and changes nothing; no
\* balance is negative.
C6_OneOfTwoWithdrawals ==
    /\ \A u \in DOMAIN users : users[u].balance >= 0
    /\ \A p \in RacedWithdrawals :
          \E k, l \in {p[1], p[2]} :
              /\ k # l
              /\ resp[k].code # "InsufficientBalance"
              /\ resp[k].delta[resp[k].msg.wd.uid] = 0 - PriceOf(k)
              /\ resp[l].code = "InsufficientBalance"
              /\ ChangedNothing(l)

\* two withdrawals of 40 on a balance of 50, the second in flight while the
\* first was handled
C6_Witness ==
    \E p \in RacedWithdrawals :
        /\ resp[p[1]].others >= 1
        /\ resp[p[1]].bal = 50 /\ PriceOf(p[1]) = 40 /\ PriceOf(p[2]) = 40
        /\ resp[p[1]].code = "OK" /\ resp[p[2]].code = "InsufficientBalance"

\* the postbacks for a referred user that raised the referrer's balance by
\* the bonus (a commission alone is below 50 for every payout of the alphabet)
BonusPaidFor(x) ==
    {i \in PostbackEntries :
        resp[i].msg.pb.user_id = x /\ resp[i].delta["u1"] >= REFERRAL_BONUS}

\* C8: the referrer receives the 50-point bonus for a referred user at most
\* once, and exactly once when that user's lifetime earnings have reached 500.
C8_BonusOncePerReferredUser ==
    \A x \in {"u2", "u3"} :
        /\ Cardinality(BonusPaidFor(x)) <= 1
        /\ users[x].lifetime_earnings >= REFERRAL_THRESHOLD
              => Cardinality(BonusPaidFor(x)) = 1

-----------------------------------------------------------------------------
(* Properties of a stopped process (SpecCrash) and of the cool-down       *)
(* (SpecCooldown)                                                          *)

RECURSIVE AmountFrom(_, _, _, _)
AmountFrom(txs, uid, source, i) ==
    IF i > Len(txs) THEN 0
    ELSE (IF txs[i].user_id = uid /\ txs[i].source = source THEN txs[i].amount ELSE 0)
         + AmountFrom(txs, uid, source, i + 1)

\* C7: after a restart the file holds, for every postback credit and every
\* withdrawal, both the ledger entry and its balance update or neither: a
\* user's lifetime earnings are the sum of the user's postback entries and
\* the points withdrawn are the sum of the user's withdrawal entries, so a
\* transaction_id answered AlreadyProcessed has been credited.
C7_EntryAndBalanceTogether ==
    \A u \in DOMAIN users :
        /\ users[u].lifetime_earnings = AmountFrom(transactions, u, "lootably", 1)
        /\ users[u].total_withdrawn = AmountFrom(transactions, u, "withdrawal", 1)

\* the instant the account was created, kept to the millisecond by the id of
\* the sign-up bonus entry
CreatedMs(uid) ==
    (CHOOSE i \in EntriesOf(DB, uid, "signup_bonus") : TRUE)

\* C10: for a user who has not withdrawn yet, a request made less than 7
\* days after the account was created is answered CooldownActive and changes
\* nothing; a request made 7 days after creation or later is not rejected by
\* the cool-down and succeeds when the balance covers an in-stock reward.
C10_SevenDaysFromCreation ==
    \A req \in CoolWithdraws :
        (HasUser(DB, req.uid) /\ IsNull(users[req.uid].first_withdrawal_at)) =>
            LET age == now - transactions[CreatedMs(req.uid)].id[3]
                reward == Val(getRewardById(req.rewardId))
                r == Withdraw(DB, req, now, tz)
            IN /\ age < 7 * 24 * 60 * 60 * 1000
                    => (r.code = "CooldownActive" /\ r.db = DB)
               /\ age >= 7 * 24 * 60 * 60 * 1000
                    => /\ r.code # "CooldownActive"
                       /\ (reward.stock > 0 /\ users[req.uid].balance >= reward.price)
                             => r.code = "OK"

-----------------------------------------------------------------------------
(* Properties of the postback validation (SpecValidation) *)

\* a field is absent, or the payout is not a number of at least one point
BadFields(req) ==
    \/ req.user_id = "" \/ IsNull(req.transaction_id) \/ req.payout.empty
    \/ ~req.payout.num \/ req.payout.cents < 100

\* C11: a postback that carries a secret other than the configured one is
\* answered Unauthorized (403), whatever its other parameters are.
C11_SecretCheckedFirst ==
    \A i \in 1..Len(resp) :
        (resp[i].req.secret # "" /\ resp[i].req.secret # LOOTABLY_SECRET)
            => resp[i].code = "InvalidSecret"

\* C12: a postback with the right secret that lacks a field or whose payout
\* is not a positive number is answered 400, allow-list or not.
C12_FieldsBeforeAllowList ==
    \A i \in 1..Len(resp) :
        (resp[i].req.secret = LOOTABLY_SECRET /\ BadFields(resp[i].req))
            => resp[i].code \in {"MissingParams", "InvalidPayout"}

\* C13: a postback rejected by validation leaves the users, the ledger and
\* the withdrawal records as they were; a postback for an unknown user that
\* is otherwise in order is answered NotFound (404) and leaves its
\* transaction_id unused.
C13_RejectedChangesNothing ==
    \A i \in 1..Len(resp) :
        LET req == resp[i].req
        IN /\ resp[i].code \in {"MissingParams", "InvalidSecret", "IpNotAuthorized",
                                "InvalidPayout", "UserNotFound"}
                => DB = resp[i].before
           /\ (req.secret = LOOTABLY_SECRET /\ ~BadFields(req)
               /\ (whitelist = {} \/ req.ip \in whitelist)
               /\ req.user_id \notin DOMAIN resp[i].before.users)
                => /\ resp[i].code = "UserNotFound"
                   /\ StatusOf(resp[i].code) = 404
                   /\ HasTx(DB, Val(req.transaction_id))
                         = HasTx(resp[i].before, Val(req.transaction_id))

\* a postback for an unknown user was answered 404; its transaction_id is
\* unused and a postback with that id for u2 would be credited
C13_Witness ==
    /\ resp # << >>
    /\ resp[1].req.user_id = "nobody"
    /\ resp[1].code = "UserNotFound"
    /\ ~HasTx(DB, Val(resp[1].req.transaction_id))
    /\ \E req \in ValPostbacks :
          /\ req.transaction_id = resp[1].req.transaction_id
          /\ Postback(DB, req, now, whitelist).code = "Credited"

-----------------------------------------------------------------------------
(* Properties of the withdrawal gate (ledger specification) *)

\* C14: the checks of a withdrawal are made in the order reward exists, in
\* stock, cool-down, balance, and the first that fails gives the answer.
C14_FirstFailingCheckAnswers ==
    \A req \in WithdrawReqs :
        HasUser(DB, req.uid) =>
            LET reward == getRewardById(req.rewardId)
                code == Withdraw(DB, req, now, tz).code
            IN IF IsNull(reward) THEN code = "RewardNotFound"
               ELSE IF Val(reward).stock = 0 THEN code = "OutOfStock"
               ELSE IF CooldownActive(users[req.uid], now, tz) THEN code = "CooldownActive"
               ELSE IF users[req.uid].balance < Val(reward).price
                    THEN code = "InsufficientBalance"
               ELSE code \in {"OK", "ServerError"}

\* a user in the cool-down whose balance is below 500 asks for an unknown
\* reward, for the out-of-stock reward of 500 and for the reward of 500
C14_Witness ==
    /\ HasUser(DB, "u2")
    /\ CooldownActive(users["u2"], now, tz)
    /\ users["u2"].balance < 500
    /\ Withdraw(DB, [uid |-> "u2", rewardId |-> "nope"], now, tz).code = "RewardNotFound"
    /\ Withdraw(DB, [uid |-> "u2", rewardId |-> "rOut"], now, tz).code = "OutOfStock"
    /\ Withdraw(DB, [uid |-> "u2", rewardId |-> "r500"], now, tz).code = "CooldownActive"

\* the changes the accepted withdrawal req of price p makes, other than to
\* the fields of the user's row named in keep
WithdrawalEffect(req, keep) ==
    LET r == Withdraw(DB, req, now, tz)
        p == Val(getRewardById(req.rewardId)).price
        uid == req.uid
        n == Len(transactions)
        w == Len(withdrawals)
    IN /\ r.db.users[uid].balance = users[uid].balance - p
       /\ r.db.users[uid].total_withdrawn = users[uid].total_withdrawn + p
       /\ \A f \in DOMAIN users[uid] \ ({"balance", "total_withdrawn"} \cup keep) :
              r.db.users[uid][f] = users[uid][f]
       /\ \A v \in DOMAIN users \ {uid} : r.db.users[v] = users[v]
       /\ DOMAIN r.db.users = DOMAIN users
       /\ Len(r.db.transactions) = n + 1
       /\ SubSeq(r.db.transactions, 1, n) = transactions
       /\ r.db.transactions[n + 1].user_id = uid
       /\ r.db.transactions[n + 1].type = "debit"
       /\ r.db.transactions[n + 1].source = "withdrawal"
       /\ r.db.transactions[n + 1].amount = p
       /\ Len(r.db.withdrawals) = w + 1
       /\ SubSeq(r.db.withdrawals, 1, w) = withdrawals
       /\ r.db.withdrawals[w + 1].user_id = uid
       /\ r.db.withdrawals[w + 1].status = "pending"
       /\ r.db.withdrawals[w + 1].points_spent = p
       /\ WithdrawNewBalance(DB, req, now, tz) = users[uid].balance - p

\* C15 as stated: an accepted withdrawal of price p changes the balance and
\* total_withdrawn by p, adds one debit entry and one pending record of p,
\* reports the balance less p, and changes nothing else.
C15_ExactlyTheseChanges ==
    \A req \in WithdrawReqs :
        Withdraw(DB, req, now, tz).code = "OK" => WithdrawalEffect(req, {})

\* C15 amended: the same, and first_withdrawal_at of the user is stamped when
\* it was unset and kept when it was set.
C15_TheseChangesAndStamp ==
    \A req \in WithdrawReqs :
        LET r == Withdraw(DB, req, now, tz)
        IN r.code = "OK" =>
              /\ WithdrawalEffect(req, {"first_withdrawal_at"})
              /\ ~IsNull(r.db.users[req.uid].first_withdrawal_at)
              /\ ~IsNull(users[req.uid].first_withdrawal_at)
                    => r.db.users[req.uid].first_withdrawal_at
                          = users[req.uid].first_withdrawal_at

\* a user who has withdrawn once holds the debit entry and the pending
\* record of that withdrawal and can withdraw again
C15_Witness ==
    /\ HasUser(DB, "u2")
    /\ ~IsNull(users["u2"].first_withdrawal_at)
    /\ Len(withdrawals) = 1
    /\ EntriesOf(DB, "u2", "withdrawal") # {}
    /\ \E req \in WithdrawReqs : Withdraw(DB, req, now, tz).code = "OK"

-----------------------------------------------------------------------------
(* Properties of the referral specification *)

ReferrerOf(db, u) == db.users[u].referred_by_user_id

\* C16: once a user has a referrer, every apply-referral of that user is
\* rejected with the database as it was, and no sign-up, apply-referral or
\* postback changes that user's referrer.
C16_ReferrerSetOnce ==
    \A i \in 1..Len(resp) :
        LET e == resp[i]
        IN /\ \A u \in DOMAIN e.before.users :
                ~IsNull(ReferrerOf(e.before, u)) =>
                    /\ HasUser(DB, u)
                    /\ ReferrerOf(DB, u) = ReferrerOf(e.before, u)
           /\ (e.kind = "apply" /\ ~IsNull(ReferrerOf(e.before, e.req.uid))) =>
                /\ e.code \in {"RefCodeRequired", "AlreadyReferred"}
                /\ StatusOf(e.code) = 400
                /\ DB = e.before

\* a referred user applied the code of another user at another address than
\* that user's, a code that only the referrer check refuses
C16_Witness ==
    \E i \in 1..Len(resp) :
        /\ resp[i].kind = "apply"
        /\ ~IsNull(ReferrerOf(resp[i].before, resp[i].req.uid))
        /\ ApplyReferralValidationNoReferrerCheck(resp[i].before, resp[i].req) = ""
        /\ resp[i].req.refCode # ReferrerOf(resp[i].before, resp[i].req.uid)
        /\ resp[i].code = "AlreadyReferred"

\* v is met within n links on the way from u up its referrers
RECURSIVE AncestorWithin(_, _, _, _)
AncestorWithin(db, u, v, n) ==
    IF n = 0 \/ ~HasUser(db, u) THEN FALSE
    ELSE IF IsNull(ReferrerOf(db, u)) THEN FALSE
    ELSE \/ Val(ReferrerOf(db, u)) = v
         \/ AncestorWithin(db, Val(ReferrerOf(db, u)), v, n - 1)

\* C17: no user is their own ancestor in the referral relation.
C17_ReferralAcyclic ==
    \A u \in DOMAIN users : ~AncestorWithin(DB, u, u, Cardinality(DOMAIN users))

\* the code of the request names an account at the requester's address
SameAddress(db, code, ip) ==
    /\ ~IsNull(code)
    /\ HasUser(db, Val(code))
    /\ db.users[Val(code)].ip_address = ip

\* C18: an apply-referral with the user's own code, or with the code of an
\* account recorded at the requester's address, is refused and leaves the
\* database as it was (own code: "OwnCode", same address: "SameIp", for a
\* user with no referrer); a sign-up with the code of an account recorded at
\* the new user's address creates the user with no referrer.
C18_SelfReferralRejected ==
    \A i \in 1..Len(resp) :
        LET e == resp[i]
        IN /\ (e.kind = "apply" /\ e.req.refCode = Some(e.req.uid)) =>
                /\ StatusOf(e.code) = 400
                /\ DB = e.before
                /\ IsNull(ReferrerOf(e.before, e.req.uid)) => e.code = "OwnCode"
           /\ (e.kind = "apply" /\ SameAddress(e.before, e.req.refCode, e.req.ip)) =>
                /\ StatusOf(e.code) = 400
                /\ DB = e.before
                /\ (IsNull(ReferrerOf(e.before, e.req.uid))
                        /\ e.req.refCode # Some(e.req.uid)) => e.code = "SameIp"
           /\ (e.kind = "login" /\ e.code = "LoginNew"
                    /\ SameAddress(e.before, e.req.refCode, e.req.ip)) =>
                /\ HasUser(DB, e.req.email)
                /\ IsNull(ReferrerOf(DB, e.req.email))

\* a user signed up with the code of an account at their own address
C18_Witness ==
    \E i \in 1..Len(resp) :
        /\ resp[i].kind = "login"
        /\ resp[i].code = "LoginNew"
        /\ SameAddress(resp[i].before, resp[i].req.refCode, resp[i].req.ip)
        /\ IsNull(ReferrerOf(DB, resp[i].req.email))

-----------------------------------------------------------------------------
(* The ledger as a log *)

\* C19: every step of a sign-up, postback, apply-referral or withdrawal
\* leaves each entry of the ledger where it was and as it was (id, owner,
\* amount, direction, source); entries are only added after them.
C19_LedgerAppendOnly ==
    [][/\ Len(transactions') >= Len(transactions)
       /\ SubSeq(transactions', 1, Len(transactions)) = transactions]_vars

\* the ledger holds entries written by a sign-up, a postback, the referral
\* commission of a postback and a withdrawal
C19_Witness ==
    \A src \in {"signup_bonus", "lootably", "referral_commission", "withdrawal"} :
        \E i \in 1..Len(transactions) : transactions[i].source = src

-----------------------------------------------------------------------------
(* Properties of the restart specification *)

\* a delivery that carries every parameter, the shared secret, a payout of
\* at least one point and the id of a user with an account (accounts are
\* never deleted): it passes every check that comes before the duplicate
\* check
Deliverable(req) ==
    /\ ~BadFields(req)
    /\ req.secret = LOOTABLY_SECRET
    /\ HasUser(SeedDB, req.user_id)

-----------------------------------------------------------------------------
(* Properties of the listing specification *)

\* C21: a listing holds at most 100 entries, whatever the limit parameter.
C21_AtMostHundred ==
    \A i \in 1..Len(resp) : Len(resp[i].answer.transactions) <= LISTING_CAP

\* C30: in a listing an entry written later never comes after an entry
\* written earlier.
C30_NewestFirst ==
    \A i \in 1..Len(resp) :
        \A k \in 1..Len(resp[i].answer.transactions) :
            \A l \in (k + 1)..Len(resp[i].answer.transactions) :
                resp[i].answer.transactions[k] > resp[i].answer.transactions[l]

-----------------------------------------------------------------------------
(* Properties of the withdrawal bodies *)

PointsSpent(db) == [i \in 1..Len(db.withdrawals) |-> db.withdrawals[i].points_spent]

\* C22: the withdrawal that was handled, and the same withdrawal with any
\* other deliveryInfo and price in its body, get the same answer and leave
\* the same user records, the same ledger and the same points_spent; an
\* accepted one debits the catalog price of its rewardId.
C22_PriceFromCatalog ==
    \A i \in 1..Len(resp) :
        LET e == resp[i]
        IN /\ \A other \in WithdrawBodies :
                other.rewardId = e.body.rewardId =>
                    LET r == WithdrawOfBody(e.before, e.uid, other, e.at, tz)
                    IN /\ r.code = e.code
                       /\ r.db.users = e.after.users
                       /\ r.db.transactions = e.after.transactions
                       /\ PointsSpent(r.db) = PointsSpent(e.after)
           /\ e.code = "OK" =>
                /\ e.before.users[e.uid].balance - e.after.users[e.uid].balance
                        = Val(getRewardById(e.body.rewardId)).price
                /\ e.after.withdrawals[Len(e.after.withdrawals)].points_spent
                        = Val(getRewardById(e.body.rewardId)).price

\* a withdrawal was accepted whose body carried a deliveryInfo and a price
\* other than the catalog's
C22_Witness ==
    \E i \in 1..Len(resp) :
        /\ resp[i].code = "OK"
        /\ ~IsNull(resp[i].body.price)
        /\ Val(resp[i].body.price) # Val(getRewardById(resp[i].body.rewardId)).price
        /\ ~IsNull(resp[i].body.deliveryInfo)
        /\ resp[i].after.withdrawals[Len(resp[i].after.withdrawals)].delivery_info
                = resp[i].body.deliveryInfo

-----------------------------------------------------------------------------
(* A step that fails inside a handler (ledger specification) *)

\* what the run r of a handler on db added to the balance of u, and to the
\* credits minus debits of the ledger entries of u
BalanceChange(db, r, u) == r.db.users[u].balance - db.users[u].balance
LedgerChange(db, r, u) == LedgerSum(r.db, u) - LedgerSum(db, u)

\* C23: a postback or a withdrawal that is answered with an internal error
\* leaves no balance changed without the ledger entries of that change.
C23_NoHalfMutation ==
    /\ \A req \in PostbackReqs :
            LET r == Postback(DB, req, now, whitelist)
            IN r.code = "ServerError" =>
                \A u \in DOMAIN users : BalanceChange(DB, r, u) = LedgerChange(DB, r, u)
    /\ \A req \in WithdrawReqs :
            LET r == Withdraw(DB, req, now, tz)
            IN r.code = "ServerError" =>
                \A u \in DOMAIN users : BalanceChange(DB, r, u) = LedgerChange(DB, r, u)

-----------------------------------------------------------------------------
(* The referral step and the partner's retries (requests in flight) *)

\* the commissions owed to referrer r for the postback entries txs[i..]
RECURSIVE CommissionOwedFrom(_, _, _)
CommissionOwedFrom(txs, r, i) ==
    IF i > Len(txs) THEN 0
    ELSE (IF /\ txs[i].source = "lootably"
             /\ users[txs[i].user_id].referred_by_user_id = Some(r)
          THEN Commission(txs[i].amount) ELSE 0)
         + CommissionOwedFrom(txs, r, i + 1)

\* the unlock bonuses owed to r: one for each user r referred whose
\* lifetime earnings have reached the threshold
BonusOwed(r) ==
    REFERRAL_BONUS *
        Cardinality({u \in DOMAIN users : /\ users[u].referred_by_user_id = Some(r)
                                          /\ users[u].lifetime_earnings >= REFERRAL_THRESHOLD})

\* the points r was credited as a referrer
ReferralReceived(r) ==
    users[r].total_earned - SIGNUP_BONUS - users[r].lifetime_earnings

\* every postback that was answered with an internal error has been sent again
FailuresRetried ==
    \A i \in 1..Len(resp) :
        (resp[i].msg.kind = "postback" /\ resp[i].code = "ServerError") =>
            \E j \in (i + 1)..Len(resp) : resp[j].msg = resp[i].msg

\* C24: once the partner has retried every postback whose referral step
\* failed, each referrer has been credited the commission of every credit
\* of the users it referred and the bonus of each of them whose earnings
\* reached the threshold.
C24_ReferralNotLost ==
    FailuresRetried =>
        \A r \in DOMAIN users :
            ReferralReceived(r) >= CommissionOwedFrom(transactions, r, 1) + BonusOwed(r)

-----------------------------------------------------------------------------
(* first_withdrawal_at (ledger specification) *)

WithdrawalsOf(ws, u) == {i \in 1..Len(ws) : ws[i].user_id = u}

\* C25: in every step, a first_withdrawal_at that is set keeps its value; one
\* that becomes set is set by an accepted withdrawal of that user, to the
\* instant of that step; one that is unset belongs to a user with no
\* withdrawal record.
C25_FirstWithdrawalSetOnce ==
    [][\A u \in DOMAIN users :
            /\ ~IsNull(users[u].first_withdrawal_at) =>
                    users'[u].first_withdrawal_at = users[u].first_withdrawal_at
            /\ (IsNull(users[u].first_withdrawal_at)
                    /\ ~IsNull(users'[u].first_withdrawal_at)) =>
                    /\ users'[u].first_withdrawal_at = Some(SqlDatetimeNow(now))
                    /\ WithdrawalsOf(withdrawals, u) = {}
                    /\ WithdrawalsOf(withdrawals', u) = {Len(withdrawals')}
                    /\ users'[u].balance < users[u].balance
            /\ IsNull(users'[u].first_withdrawal_at) =>
                    WithdrawalsOf(withdrawals', u) = {}]_vars

\* a user has withdrawn a second time, seven days after the first time
C25_Witness ==
    \E u \in DOMAIN users :
        /\ Cardinality(WithdrawalsOf(withdrawals, u)) = 2
        /\ HasTx(DB, WithdrawTxId(u, SEVEN_DAYS_MS))
        /\ HasTx(DB, WithdrawTxId(u, 2 * SEVEN_DAYS_MS))
        /\ users[u].first_withdrawal_at = Some(SqlDatetimeNow(SEVEN_DAYS_MS))

-----------------------------------------------------------------------------
(* daysRemaining of a cool-down rejection (cool-down specification) *)

\* C26: a withdrawal rejected by the cool-down reports
\* ceil((7 days - age) / 1 day) days, a number from 1 to 7, where age is the
\* time since the account was created.
C26_DaysRemainingRoundedUp ==
    \A req \in CoolWithdraws :
        (HasUser(DB, req.uid)
            /\ Withdraw(DB, req, now, tz).code = "CooldownActive") =>
            LET age == now - transactions[CreatedMs(req.uid)].id[3]
                reported == DaysRemaining(users[req.uid], now, tz)
            IN /\ reported = CeilDiv(SEVEN_DAYS_MS - age, DAY_MS)
               /\ reported \in 1..7

-----------------------------------------------------------------------------
(* lifetime_earnings (ledger specification) *)

LifetimeChange(db, r, u) == r.db.users[u].lifetime_earnings - db.users[u].lifetime_earnings

\* every postback that writes a credit raises the lifetime earnings of its
\* user by the points it adds to that user's balance and leaves those of
\* every other user; no withdrawal changes the lifetime earnings of anyone
LifetimeFollowsCredits ==
    /\ \A req \in PostbackReqs :
            LET r == Postback(DB, req, now, whitelist)
            IN \A u \in DOMAIN users :
                    IF u = req.user_id /\ r.code \in {"Credited", "ServerError"}
                    THEN /\ LifetimeChange(DB, r, u) = PostbackPoints(req.payout)
                         /\ LifetimeChange(DB, r, u) = BalanceChange(DB, r, u)
                         /\ LifetimeChange(DB, r, u) > 0
                    ELSE LifetimeChange(DB, r, u) = 0
    /\ \A req \in WithdrawReqs :
            LET r == Withdraw(DB, req, now, tz)
            IN \A u \in DOMAIN users : LifetimeChange(DB, r, u) = 0

\* C27: no step lowers the lifetime earnings of a user, a credited postback
\* raises them by the points it credits to its user, and a withdrawal,
\* accepted or not, leaves them as they were.
C27_LifetimeNeverDecreases ==
    /\ []LifetimeFollowsCredits
    /\ [][\A u \in DOMAIN users :
                users'[u].lifetime_earnings >= users[u].lifetime_earnings]_vars

\* a user who earned has spent points, and the lifetime earnings still hold
\* what was earned
C27_Witness ==
    \E u \in DOMAIN users :
        /\ users[u].lifetime_earnings >= 600
        /\ users[u].total_withdrawn >= 500
        /\ users[u].balance < users[u].lifetime_earnings

-----------------------------------------------------------------------------
(* The referral threshold (ledger specification) *)

NoReferrer(db, uid) == HasUser(db, uid) /\ IsNull(db.users[uid].referred_by_user_id)

\* C28: a postback for a user without a referrer runs no statement of the
\* referral section, changes no other user's balance and leaves the user's
\* unlock flag, and it adds nothing to the counter that the threshold test
\* reads: points earned without a referrer do not count toward the threshold.
C28_NoReferrerNoCount ==
    \A req \in PostbackReqs :
        NoReferrer(DB, req.user_id) =>
            LET r == Postback(DB, req, now, whitelist)
                u == req.user_id
            IN /\ r.ran <= Len(CreditStmts(req))
               /\ \A o \in DOMAIN users \ {u} : BalanceChange(DB, r, o) = 0
               /\ r.db.users[u].referral_unlocked = users[u].referral_unlocked
               /\ r.db.users[u].lifetime_earnings = users[u].lifetime_earnings

\* the referrer of the credited user is paid more than the commission alone
BonusPaid(db, req, r) ==
    /\ HasUser(db, req.user_id)
    /\ ~IsNull(db.users[req.user_id].referred_by_user_id)
    /\ LET referrerId == Val(db.users[req.user_id].referred_by_user_id)
       IN /\ referrerId # req.user_id
          /\ BalanceChange(db, r, referrerId) # 0
          /\ BalanceChange(db, r, referrerId) # Commission(PostbackPoints(req.payout))

\* C29: a postback pays the unlock bonus only if the lifetime earnings of its
\* user were below the threshold before it and are at or above the threshold
\* after it, and the unlock flag was not set.
C29_BonusOnlyOnCrossing ==
    \A req \in PostbackReqs :
        LET r == Postback(DB, req, now, whitelist)
        IN BonusPaid(DB, req, r) =>
            /\ users[req.user_id].lifetime_earnings < REFERRAL_THRESHOLD
            /\ r.db.users[req.user_id].lifetime_earnings >= REFERRAL_THRESHOLD
            /\ users[req.user_id].referral_unlocked = 0

-----------------------------------------------------------------------------
(* Partner ids and the server's own ids (ledger specification) *)

\* C31: a valid postback whose transaction_id no earlier postback carried is
\* not answered as already processed.
C31_FirstDeliveryIsFresh ==
    \A req \in IdPostbacks :
        Val(req.transaction_id) \notin resp[1].carried =>
            Postback(DB, req, now, whitelist).code # "AlreadyProcessed"

-----------------------------------------------------------------------------
(* The counters of a user (ledger specification) *)

BalanceIsEarnedLessWithdrawn ==
    \A u \in DOMAIN users :
        users[u].balance = users[u].total_earned - users[u].total_withdrawn

\* C32: between requests the balance of every user is total_earned less
\* total_withdrawn, and no step lowers total_earned or total_withdrawn.
C32_BalanceIsEarnedLessWithdrawn ==
    /\ []BalanceIsEarnedLessWithdrawn
    /\ [][\A u \in DOMAIN users :
                /\ users'[u].total_earned >= users[u].total_earned
                /\ users'[u].total_withdrawn >= users[u].total_withdrawn]_vars

\* a referred user has earned and withdrawn, and the referrer holds
\* referral income
C32_Witness ==
    \E u \in DOMAIN users :
        /\ users[u].total_withdrawn > 0
        /\ users[u].total_earned > SIGNUP_BONUS
        /\ ~IsNull(users[u].referred_by_user_id)
        /\ users[Val(users[u].referred_by_user_id)].total_earned > SIGNUP_BONUS

-----------------------------------------------------------------------------
(* The records a postback touches (referral specification) *)

FramePostbacks ==
    {GoodPostback(u, PayoutNum(60000), PartnerTx("tx1")) : u \in UserIds}

\* C33: a credited postback for user U leaves every user other than U and
\* U's referrer as it was, changes of the referrer nothing but balance and
\* total_earned, and so pays nothing to the referrer of the referrer.
C33_OnlyUserAndReferrer ==
    \A req \in FramePostbacks :
        LET r == Postback(DB, req, now, whitelist)
            U == req.user_id
        IN r.code = "Credited" =>
            LET ref == users[U].referred_by_user_id
            IN /\ DOMAIN r.db.users = DOMAIN users
               /\ \A o \in DOMAIN users \ {U} :
                    (IsNull(ref) \/ o # Val(ref)) => r.db.users[o] = users[o]
               /\ (~IsNull(ref) /\ Val(ref) # U) =>
                    r.db.users[Val(ref)] =
                        [users[Val(ref)] EXCEPT
                            !.balance = r.db.users[Val(ref)].balance,
                            !.total_earned = r.db.users[Val(ref)].total_earned]

\* the last request was a credited postback for a user whose referrer has a
\* referrer of its own: the referrer was paid, the referrer's referrer was not
C33_Witness ==
    /\ resp # << >>
    /\ resp[1].kind = "postback"
    /\ resp[1].code = "Credited"
    /\ LET U == resp[1].req.user_id
           before == resp[1].before
       IN /\ ~IsNull(before.users[U].referred_by_user_id)
          /\ LET R == Val(before.users[U].referred_by_user_id)
             IN /\ ~IsNull(before.users[R].referred_by_user_id)
                /\ LET G == Val(before.users[R].referred_by_user_id)
                   IN /\ G \notin {U, R}
                      /\ users[R].balance > before.users[R].balance
                      /\ users[G] = before.users[G]

-----------------------------------------------------------------------------
(* Unlock flags and bonus entries (concurrency specification) *)

BonusEntriesOf(R) ==
    {i \in 1..Len(transactions) :
        transactions[i].user_id = R /\ transactions[i].source = "referral_bonus"}

UnlockedBy(R) ==
    {u \in DOMAIN users :
        users[u].referred_by_user_id = Some(R) /\ users[u].referral_unlocked = 1}

\* C34: between requests, with every handler run to its end, every user R
\* holds as many referral_bonus entries as there are users referred by R whose
\* unlock flag is set, and every user whose flag is set has a referrer and
\* lifetime earnings of at least 500.
C34_BonusEntriesMatchFlags ==
    /\ \A R \in DOMAIN users :
            Cardinality(BonusEntriesOf(R)) = Cardinality(UnlockedBy(R))
    /\ \A u \in DOMAIN users :
            users[u].referral_unlocked = 1 =>
                /\ ~IsNull(users[u].referred_by_user_id)
                /\ users[u].lifetime_earnings >= REFERRAL_THRESHOLD

\* a referrer holds the bonus entries of two unlocked users
C34_Witness ==
    \E R \in DOMAIN users :
        /\ Cardinality(UnlockedBy(R)) = 2
        /\ Cardinality(BonusEntriesOf(R)) = 2

-----------------------------------------------------------------------------
(* The balance endpoint and the withdrawal gate (cool-down specification) *)

\* C35: for the same user and instant the balance endpoint reports
\* canWithdraw = false with daysRemaining = d exactly when a withdrawal of a
\* reward that exists and is in stock is rejected by the cool-down with d.
C35_BalanceAgreesWithGate ==
    \A req \in CoolWithdraws :
        HasUser(DB, req.uid) =>
            LET b == UserBalance(DB, req.uid, now, tz)
                w == Withdraw(DB, req, now, tz)
            IN /\ (~b.canWithdraw) <=> (w.code = "CooldownActive")
               /\ w.code = "CooldownActive" =>
                    b.daysRemaining = DaysRemaining(users[req.uid], now, tz)
               /\ b.canWithdraw => b.daysRemaining = 0

\* an account one hour short of seven days: both report one day
C35_Witness ==
    /\ HasUser(DB, "u1")
    /\ ~UserBalance(DB, "u1", now, tz).canWithdraw
    /\ UserBalance(DB, "u1", now, tz).daysRemaining = 1
    /\ Withdraw(DB, [uid |-> "u1", rewardId |-> "r40"], now, tz).code = "CooldownActive"

-----------------------------------------------------------------------------
(* The signup bonus (login specification) *)

SignupEntriesOf(db, u) ==
    {i \in 1..Len(db.transactions) :
        db.transactions[i].user_id = u /\ db.transactions[i].source = "signup_bonus"}

UsersOfEmail(db, email) == {u \in DOMAIN db.users : db.users[u].email = email}

\* C36: a login that creates the account of an email leaves it with balance
\* 50 and exactly one signup_bonus entry of 50; a login for an email that has
\* an account changes no balance and no ledger entry, whatever the endpoint;
\* no user ever holds two signup_bonus entries.
C36_SignupBonusOnce ==
    /\ \A u \in DOMAIN users : Cardinality(SignupEntriesOf(DB, u)) <= 1
    /\ \A endpoint \in LoginEndpoints :
        \A req \in LoginReqsOf(DB, endpoint) :
            LET r == LoginOf(DB, endpoint, req, now)
            IN IF EmailTaken(DB, req.email)
               THEN /\ r.db.transactions = transactions
                    /\ DOMAIN r.db.users = DOMAIN users
                    /\ \A u \in DOMAIN users : r.db.users[u].balance = users[u].balance
               ELSE \A u \in UsersOfEmail(r.db, req.email) :
                        /\ r.db.users[u].balance = SIGNUP_BONUS
                        /\ Cardinality(SignupEntriesOf(r.db, u)) = 1
                        /\ \A i \in SignupEntriesOf(r.db, u) :
                                r.db.transactions[i].amount = SIGNUP_BONUS

====
